---------------------------- MODULE Spec2Model ----------------------------
(***************************************************************************)
(* Minecraft whitelist/status bot: the RCON client (src/src/rcon.py), the  *)
(* command facade with its asyncio deadline (src/src/minecraft.py) and the *)
(* whitelist-application handler (src/src/discord_ui.py).                  *)
(*                                                                         *)
(* The state machines of this module:                                      *)
(*   Spec, SilentSpec one facade call, byte by byte and second by second:  *)
(*                    the worker thread of asyncio.to_thread, its Rcon     *)
(*                    session and socket, the peer, and the awaiting       *)
(*                    caller with the asyncio.wait_for deadline;           *)
(*   BotSpec          the event loop: whitelist-application handlers, the  *)
(*                    status tick and their concurrent RCON workers, one   *)
(*                    step per blocking call;                              *)
(*   LoopSpec         the same after a first registration, the status      *)
(*                    message possibly deleted under the loop;             *)
(*   ApiSpec          one Rcon object called in any order;                 *)
(*   CodecSpec        the frame written by _send and the frame it reads;   *)
(*   ParseSpec        the worker functions on a response text;             *)
(*   FacadeSpec       facade calls one after the other against a server;   *)
(*   AdminSpec        the administrators' commands;                        *)
(*   RegistrySpec     applications and removals on one store and server;   *)
(*   StatusSpec       the status columns of the table under status updates *)
(*                    and ticks of the status loop;                        *)
(*   ViewSpec         the status view and its button;                      *)
(*   ValidateSpec     one call of validate_minecraft_username;             *)
(*   BoardSpec        the status message: first post, edits, deletion and  *)
(*                    re-post, with the loop running for ever.             *)
(* Text is a sequence of code points, a byte string a sequence of 0..255.  *)
(***************************************************************************)
EXTENDS Integers, Sequences, FiniteSets, TLC

VARIABLES
    \* ---- Spec: one facade call ----
    op,        \* the call: [name, username], name = "none" before dispatch
    caller,    \* the awaiting coroutine: "idle", "waiting", "returned"
    result,    \* what the facade returned: <<>> or <<value>>
    raised,    \* TRUE iff an exception escaped the facade coroutine
    elapsed,   \* seconds since asyncio.wait_for was dispatched
    wpc,       \* worker thread: "idle","connect","send","read_len","read_body","done"
    phase,     \* which _send the session is in: "auth" (connect) or "cmd"
    socket,    \* Rcon.socket: 0 is None, otherwise the id of a socket
    sockets,   \* every socket created so far: sequence of "open" / "closed"
    want,      \* _read: the length asked for
    data,      \* _read: the bytes accumulated so far
    rtimer,    \* seconds the worker has been blocked in connect() / recv()
    inbox,     \* bytes the peer has sent that the client has not consumed
    wres,      \* the worker function's return value: <<>> or <<value>>
    hist,      \* observation record (see HistInit)
    \* ---- BotSpec: the event loop ----
    pending_users,  \* MinecraftWhitelistStatusBot.pending_users
    store,          \* whitelist_users: discord id -> username (0 rows absent)
    whitelist,      \* the game server's whitelist (set of usernames)
    handlers,       \* on_submit invocations: sequence of records
    workers,        \* facade worker threads: sequence of records
    bsockets,       \* sockets created by the workers: sequence of records
    sessions,       \* Rcon objects constructed by the workers: sequence of records
    ticker,         \* update_status_task: [pc, w, n, reposting, status_message]
    \* ---- the smaller machines ----
    api,       \* ApiSpec: the Rcon object, its sockets and the calls made on it
    codec,     \* CodecSpec: a frame on its way from _send to the peer and back
    parse,     \* ParseSpec: a worker function's command, response and result
    calls,     \* FacadeSpec: the facade calls made so far, in order
    admin,     \* AdminSpec: the command invocations, in order
    stats,     \* StatusSpec: the table with its status columns, the clock, the server
    views,     \* ViewSpec: the status views rendered and the presses of their button
    lookup,    \* ValidateSpec: one call of validate_minecraft_username
    board      \* BoardSpec: the status message the bot tracks and the messages that exist

rconVars == <<op, caller, result, raised, elapsed, wpc, phase, socket, sockets,
              want, data, rtimer, inbox, wres, hist>>
botVars  == <<pending_users, store, whitelist, handlers, workers, bsockets, sessions,
              ticker>>
sideVars == <<stats, views, lookup, board>>
auxVars  == <<api, codec, parse, calls, admin, sideVars>>
vars     == <<rconVars, botVars, auxVars>>

--------------------------------------------------------------------------
(* Bytes, struct.pack / struct.unpack, UTF-8, Python slices                *)

Min(a, b) == IF a < b THEN a ELSE b
Max(a, b) == IF a > b THEN a ELSE b

TwoTo8 == 2^8

\* the four little-endian bytes of u, 0 <= u < 2^31
Bytes4(u) ==
    << u % TwoTo8, (u \div TwoTo8) % TwoTo8,
       (u \div (TwoTo8 * TwoTo8)) % TwoTo8,
       (u \div (TwoTo8 * TwoTo8 * TwoTo8)) % TwoTo8 >>

\* struct.pack("<i", n): four bytes, little-endian two's complement
\* (a negative n is the bitwise complement of -(n + 1))
PackI32(n) ==
    IF n >= 0 THEN Bytes4(n)
    ELSE [i \in 1..4 |-> (TwoTo8 - 1) - Bytes4(-(n + 1))[i]]

\* struct.unpack("<i", b) for Len(b) = 4
UnpackI32(b) ==
    IF b[4] < TwoTo8 \div 2
    THEN b[1] + TwoTo8 * b[2] + TwoTo8 * TwoTo8 * b[3] + TwoTo8 * TwoTo8 * TwoTo8 * b[4]
    ELSE -((TwoTo8 - 1 - b[1]) + TwoTo8 * (TwoTo8 - 1 - b[2])
           + TwoTo8 * TwoTo8 * (TwoTo8 - 1 - b[3])
           + TwoTo8 * TwoTo8 * TwoTo8 * (TwoTo8 - 1 - b[4])) - 1

\* Python s[i:j] with i, j possibly negative or out of range (0-based, j excluded)
PyIndex(n, i) == IF i < 0 THEN Max(n + i, 0) ELSE Min(i, n)
PySlice(s, i, j) == SubSeq(s, PyIndex(Len(s), i) + 1, PyIndex(Len(s), j))
PySliceFrom(s, i) == SubSeq(s, PyIndex(Len(s), i) + 1, Len(s))
PySliceTo(s, j) == SubSeq(s, 1, PyIndex(Len(s), j))

\* str.encode("utf8") of one code point
Utf8Char(c) ==
    IF c < 128 THEN <<c>>
    ELSE IF c < 2048 THEN << 192 + (c \div 64), 128 + (c % 64) >>
    ELSE IF c < 65536 THEN
        << 224 + (c \div 4096), 128 + ((c \div 64) % 64), 128 + (c % 64) >>
    ELSE << 240 + (c \div 262144), 128 + ((c \div 4096) % 64),
            128 + ((c \div 64) % 64), 128 + (c % 64) >>

RECURSIVE Utf8Encode(_)
Utf8Encode(s) == IF s = <<>> THEN <<>> ELSE Utf8Char(Head(s)) \o Utf8Encode(Tail(s))

IsCont(b) == b >= 128 /\ b <= 191

\* number of bytes of the well-formed UTF-8 sequence at the head of b, 0 if none
Utf8Width(b) ==
    LET n == Len(b)
        b1 == b[1]
    IN  IF b1 < 128 THEN 1
        ELSE IF b1 >= 194 /\ b1 <= 223
            THEN IF n >= 2 /\ IsCont(b[2]) THEN 2 ELSE 0
        ELSE IF b1 >= 224 /\ b1 <= 239
            THEN IF n >= 3 /\ IsCont(b[2]) /\ IsCont(b[3])
                    /\ (b1 = 224 => b[2] >= 160) /\ (b1 = 237 => b[2] <= 159)
                 THEN 3 ELSE 0
        ELSE IF b1 >= 240 /\ b1 <= 244
            THEN IF n >= 4 /\ IsCont(b[2]) /\ IsCont(b[3]) /\ IsCont(b[4])
                    /\ (b1 = 240 => b[2] >= 144) /\ (b1 = 244 => b[2] <= 143)
                 THEN 4 ELSE 0
        ELSE 0

Utf8Point(b, w) ==
    IF w = 1 THEN b[1]
    ELSE IF w = 2 THEN (b[1] - 192) * 64 + (b[2] - 128)
    ELSE IF w = 3 THEN (b[1] - 224) * 4096 + (b[2] - 128) * 64 + (b[3] - 128)
    ELSE (b[1] - 240) * 262144 + (b[2] - 128) * 4096 + (b[3] - 128) * 64 + (b[4] - 128)

\* bytes.decode("utf8"): [ok |-> TRUE, text |-> code points], or ok = FALSE
\* (UnicodeDecodeError)
RECURSIVE Utf8Decode(_)
Utf8Decode(b) ==
    IF b = <<>> THEN [ok |-> TRUE, text |-> <<>>]
    ELSE LET w == Utf8Width(b)
         IN  IF w = 0 THEN [ok |-> FALSE, text |-> <<>>]
             ELSE LET rest == Utf8Decode(SubSeq(b, w + 1, Len(b)))
                  IN  IF rest.ok
                      THEN [ok |-> TRUE, text |-> <<Utf8Point(b, w)>> \o rest.text]
                      ELSE rest

\* Python's `sub in s` for text
Contains(s, sub) ==
    \E i \in 0..(Len(s) - Len(sub)) : SubSeq(s, i + 1, i + Len(sub)) = sub

--------------------------------------------------------------------------
(* Text helpers: str.strip, str.split                                      *)

\* the code points str.strip() removes (the ones below 256)
Whitespace == {9, 10, 11, 12, 13, 28, 29, 30, 31, 32, 133, 160}

RECURSIVE LStrip(_)
LStrip(s) == IF s # <<>> /\ Head(s) \in Whitespace THEN LStrip(Tail(s)) ELSE s

RECURSIVE RStrip(_)
RStrip(s) ==
    IF s # <<>> /\ s[Len(s)] \in Whitespace THEN RStrip(SubSeq(s, 1, Len(s) - 1)) ELSE s

\* str.strip()
Strip(s) == RStrip(LStrip(s))

\* position of the first occurrence of sub in s (1-based), 0 if absent
FirstIndex(s, sub) ==
    IF Contains(s, sub)
    THEN CHOOSE i \in 1..(Len(s) - Len(sub) + 1) :
            /\ SubSeq(s, i, i + Len(sub) - 1) = sub
            /\ \A j \in 1..(i - 1) : SubSeq(s, j, j + Len(sub) - 1) # sub
    ELSE 0

\* s.split(sep): every piece, empty ones included
RECURSIVE Split(_, _)
Split(s, sep) ==
    LET i == FirstIndex(s, sep)
    IN  IF i = 0 THEN <<s>>
        ELSE <<SubSeq(s, 1, i - 1)>> \o Split(SubSeq(s, i + Len(sep), Len(s)), sep)

\* s.split(sep, 1)[1], for s that contains sep
AfterFirst(s, sep) == SubSeq(s, FirstIndex(s, sep) + Len(sep), Len(s))

--------------------------------------------------------------------------
(* Program constants and literals                                          *)

SocketTimeout  == 5     \* Rcon.__init__(timeout=5), socket.settimeout
ReadDeadline   == 5     \* wait_for(..., timeout=5.0): is_server_running, get_player_list
WriteDeadline  == 10    \* wait_for(..., timeout=10.0): add / remove
SERVERDATA_AUTH        == 3   \* self._send(3, self.password)
SERVERDATA_EXECCOMMAND == 2   \* self._send(2, command)
RequestId      == 0     \* struct.pack("<ii", 0, out_type)
LoginFailedId  == -1    \* if in_id == -1

T_list             == <<108, 105, 115, 116>>                                \* "list"
T_whitelist_add    == <<119, 104, 105, 116, 101, 108, 105, 115, 116, 32,
                        97, 100, 100, 32>>                                  \* "whitelist add "
T_whitelist_remove == <<119, 104, 105, 116, 101, 108, 105, 115, 116, 32,
                        114, 101, 109, 111, 118, 101, 32>>                  \* "whitelist remove "
T_Added            == <<65, 100, 100, 101, 100>>                            \* "Added"
T_already          == <<97, 108, 114, 101, 97, 100, 121>>                   \* "already"
T_Removed          == <<82, 101, 109, 111, 118, 101, 100>>                  \* "Removed"
T_not_on           == <<110, 111, 116, 32, 111, 110>>                       \* "not on"
T_colon_space      == <<58, 32>>                                            \* ": "
T_comma            == <<44>>                                                \* ","

\* RconException messages
E_closed   == "Connection closed by server"
E_timeout  == "Read timeout"
E_read     == "Read error"
E_connect  == "Must connect before sending data"
E_padding  == "Incorrect padding"
E_login    == "Login failed"
E_send     == "Send error"
E_connfail == "Connection failed"

--------------------------------------------------------------------------
(* Rcon._send: the frame it writes and how it takes a response apart       *)

\* lines 61-65: struct.pack("<ii", 0, out_type) + out_data.encode("utf8") + b"\x00\x00",
\* prefixed by struct.pack("<i", len(out_payload))
OutPayload_one_nul(out_type, out_data) ==
    PackI32(RequestId) \o PackI32(out_type) \o Utf8Encode(out_data) \o <<0>>

OutPayload(out_type, out_data) ==
    PackI32(RequestId) \o PackI32(out_type) \o Utf8Encode(out_data) \o <<0, 0>>

\* a length prefix that counts characters and leaves the terminator out
OutFrame_charlen(out_type, out_data) ==
    PackI32(8 + Len(out_data)) \o OutPayload(out_type, out_data)

OutFrame(out_type, out_data) ==
    PackI32(Len(OutPayload(out_type, out_data))) \o OutPayload(out_type, out_data)

\* line 78 left out: a requestId of -1 is not looked at
LoginFailed_never(in_id) == FALSE

\* line 78: if in_id == -1
LoginFailed(in_id) == in_id = LoginFailedId

\* lines 67-70 on a response that has arrived completely: the length prefix
\* is read and then that many bytes
InPayload(wire) == SubSeq(wire, 5, 4 + UnpackI32(SubSeq(wire, 1, 4)))

\* lines 71-73: the fields of in_payload, for Len(in_payload) >= 8
Unpacked(in_payload) ==
    [in_id           |-> UnpackI32(SubSeq(PySliceTo(in_payload, 8), 1, 4)),
     in_type         |-> UnpackI32(SubSeq(PySliceTo(in_payload, 8), 5, 8)),
     in_data_partial |-> PySlice(in_payload, 8, -2),
     in_padding      |-> PySliceFrom(in_payload, -2)]

\* _send without lines 75-76
ParseResponse_nopadding(in_payload) ==
    LET head == PySliceTo(in_payload, 8)
        in_data_partial == PySlice(in_payload, 8, -2)
    IN  IF Len(head) # 8
        THEN [err |-> E_send, text |-> <<>>]
        ELSE IF LoginFailed(UnpackI32(SubSeq(head, 1, 4)))
        THEN [err |-> E_login, text |-> <<>>]
        ELSE IF ~Utf8Decode(in_data_partial).ok
        THEN [err |-> E_send, text |-> <<>>]
        ELSE [err |-> "", text |-> Utf8Decode(in_data_partial).text]

\* lines 71-80 on the bytes _read(in_length) returned:
\* [err |-> "" and text |-> the payload text], or err |-> the exception raised
ParseResponse(in_payload) ==
    LET head == PySliceTo(in_payload, 8)
        in_data_partial == PySlice(in_payload, 8, -2)
        in_padding == PySliceFrom(in_payload, -2)
    IN  IF Len(head) # 8                       \* struct.error from unpack("<ii", ...)
        THEN [err |-> E_send, text |-> <<>>]
        ELSE IF in_padding # <<0, 0>>
        THEN [err |-> E_padding, text |-> <<>>]
        ELSE IF LoginFailed(UnpackI32(SubSeq(head, 1, 4)))
        THEN [err |-> E_login, text |-> <<>>]
        ELSE IF ~Utf8Decode(in_data_partial).ok  \* UnicodeDecodeError
        THEN [err |-> E_send, text |-> <<>>]
        ELSE [err |-> "", text |-> Utf8Decode(in_data_partial).text]

--------------------------------------------------------------------------
(* MinecraftManager: the four facade operations                            *)

OpNames == {"is_server_running", "get_player_list", "add_to_whitelist",
            "remove_from_whitelist"}

\* the command each worker function passes to mcr.command
CommandText(o) ==
    CASE o.name = "is_server_running"     -> T_list
      [] o.name = "get_player_list"       -> T_list
      [] o.name = "add_to_whitelist"      -> T_whitelist_add \o o.username
      [] o.name = "remove_from_whitelist" -> T_whitelist_remove \o o.username

\* lines 71-75: the roster from the `list` response
RECURSIVE StripAll(_)
StripAll(ps) == IF ps = <<>> THEN <<>> ELSE <<Strip(Head(ps))>> \o StripAll(Tail(ps))

\* the names as split, not stripped
ParseRoster_nostrip(response) ==
    IF Contains(response, T_colon_space)
    THEN LET player_part == AfterFirst(response, T_colon_space)
         IN  IF Strip(player_part) # <<>>
             THEN Split(player_part, T_comma)
             ELSE <<>>
    ELSE <<>>

ParseRoster(response) ==
    IF Contains(response, T_colon_space)
    THEN LET player_part == AfterFirst(response, T_colon_space)
         IN  IF Strip(player_part) # <<>>
             THEN StripAll(Split(player_part, T_comma))
             ELSE <<>>
    ELSE <<>>

\* `response == "Added"` and the like in place of `in`
Interpret_exact(o, response) ==
    CASE o.name = "is_server_running"     -> TRUE
      [] o.name = "get_player_list"       -> ParseRoster(response)
      [] o.name = "add_to_whitelist"      -> response = T_Added \/ response = T_already
      [] o.name = "remove_from_whitelist" -> response = T_Removed \/ response = T_not_on

\* addition that only accepts "Added"
Interpret_added_only(o, response) ==
    CASE o.name = "is_server_running"     -> TRUE
      [] o.name = "get_player_list"       -> ParseRoster(response)
      [] o.name = "add_to_whitelist"      -> Contains(response, T_Added)
      [] o.name = "remove_from_whitelist" ->
            Contains(response, T_Removed) \/ Contains(response, T_not_on)

\* removal that only accepts "Removed"
Interpret_removed_only(o, response) ==
    CASE o.name = "is_server_running"     -> TRUE
      [] o.name = "get_player_list"       -> ParseRoster(response)
      [] o.name = "add_to_whitelist"      ->
            Contains(response, T_Added) \/ Contains(response, T_already)
      [] o.name = "remove_from_whitelist" -> Contains(response, T_Removed)

\* what each worker function returns for a response text
Interpret(o, response) ==
    CASE o.name = "is_server_running"     -> TRUE
      [] o.name = "get_player_list"       -> ParseRoster(response)
      [] o.name = "add_to_whitelist"      ->
            Contains(response, T_Added) \/ Contains(response, T_already)
      [] o.name = "remove_from_whitelist" ->
            Contains(response, T_Removed) \/ Contains(response, T_not_on)

\* what the worker's `except Exception` and the facade's except clauses return
FailureValue(o) == IF o.name = "get_player_list" THEN <<>> ELSE FALSE

\* every operation given the 10 s timeout
Deadline_same(o) == WriteDeadline

\* the timeout= argument of asyncio.wait_for
Deadline(o) ==
    IF o.name \in {"is_server_running", "get_player_list"}
    THEN ReadDeadline ELSE WriteDeadline


--------------------------------------------------------------------------
(* The peer: a Minecraft server answering one request with one frame, or   *)
(* with something that is not a frame                                      *)

\* `int32 length | int32 requestId | int32 type | UTF-8 payload | 00 00`
ServerFrame(id, type, text) ==
    PackI32(8 + Len(Utf8Encode(text)) + 2)
        \o PackI32(id) \o PackI32(type) \o Utf8Encode(text) \o <<0, 0>>

\* the same bytes with the last terminator byte overwritten
BadTerminator(frame) == SubSeq(frame, 1, Len(frame) - 1) \o <<1>>

\* a frame whose payload bytes are not UTF-8
NotUtf8Frame == PackI32(11) \o PackI32(0) \o PackI32(0) \o <<255>> \o <<0, 0>>

\* a length prefix of 8 followed by a bare header, of 4 followed by half a
\* header, and a negative length prefix
HeaderOnlyFrame(id) == PackI32(8) \o PackI32(id) \o PackI32(0)
HalfHeaderFrame     == PackI32(4) \o PackI32(0)
NegativeLength      == PackI32(-1)

\* a response sent in two frames, the second right behind the first: "hi", "no"
TwoFrames == ServerFrame(0, 0, <<104, 105>>) \o ServerFrame(0, 0, <<110, 111>>)

Usernames == { <<65, 110, 110>>, <<66, 111, 98>> }   \* "Ann", "Bob"
Password  == <<112, 233>>                        \* "p\u00e9": two characters, three bytes

R_two     == <<111, 110, 58, 32, 65, 110, 110, 44, 32, 66, 111, 98>>   \* "on: Ann, Bob"
R_none    == <<111, 110, 58>>                                 \* "on:"
R_banner  == <<104, 105>>                                     \* "hi"
R_no      == <<110, 111>>                                     \* "no"

ResponseTexts(o) ==
    CASE o.name \in {"is_server_running", "get_player_list"} -> {R_two, R_none, R_banner}
      [] o.name = "add_to_whitelist"      -> {T_Added, T_already, R_no}
      [] o.name = "remove_from_whitelist" -> {T_Removed, T_not_on, R_no}

AuthReplies ==
    { ServerFrame(0, 2, <<>>), ServerFrame(-1, 2, <<>>),
      BadTerminator(ServerFrame(0, 2, <<>>)), BadTerminator(ServerFrame(-1, 2, <<>>)),
      HeaderOnlyFrame(0), HeaderOnlyFrame(-1), HalfHeaderFrame, NegativeLength }

CommandReplies(o) ==
    { ServerFrame(0, 0, t) : t \in ResponseTexts(o) }
        \cup { BadTerminator(ServerFrame(0, 0, R_no)), NotUtf8Frame,
               HeaderOnlyFrame(0), HalfHeaderFrame, NegativeLength, TwoFrames }

ServerReplies(ph, o) == IF ph = "auth" THEN AuthReplies ELSE CommandReplies(o)

--------------------------------------------------------------------------
(* Bounds                                                                  *)

MaxSubmits == 2      \* whitelist applications submitted in one run
MaxTicks   == 1      \* ticks of the status loop in one run

MaxCalls   == 4      \* calls made on one Rcon object in one run
MaxText    == 2      \* characters of a payload text in CodecSpec
MaxRoster  == 4      \* characters of the generated `list` responses in ParseSpec
MaxFacade  == 3      \* facade calls made one after the other in FacadeSpec
MaxAdmin   == 2      \* remove_whitelist commands invoked in one run of AdminSpec
MaxViews   == 2      \* status views rendered in one run of ViewSpec
MaxPresses == 2      \* presses of the button of one view
MaxName    == 4      \* characters of the generated names in ValidateSpec
MaxInstant == 4      \* the last instant of the clock of StatusSpec, in half seconds
MaxUpdates == 3      \* status updates and ticks in one run of StatusSpec
MaxDeletes == 3      \* deletions of the status message in one run of BoardSpec

DiscordIds == {1, 2}

--------------------------------------------------------------------------
(* Spec: one facade call                                                   *)

Ops == { [name |-> n, username |-> <<>>] : n \in {"is_server_running", "get_player_list"} }
         \cup { [name |-> n, username |-> u] :
                    n \in {"add_to_whitelist", "remove_from_whitelist"}, u \in Usernames }

NoOp == [name |-> "none", username |-> <<>>]

Blocked == {"connect", "read_len", "read_body"}
Reading == {"read_len", "read_body"}

HistInit ==
    [ fails    |-> {},      \* what went wrong on the wire, as the peer and the network did it
      err      |-> <<>>,    \* the RconException the session raised, outermost message first
      wire     |-> <<>>,    \* the frames the client wrote, in order
      unread   |-> FALSE,   \* a request was written and its response is not read completely
      overlap  |-> FALSE,   \* a request was written while unread
      sent     |-> <<>>,    \* the replies the peer chose, in order
      got      |-> <<>>,    \* the in_payload of every response read completely
      resp     |-> <<>>,    \* <<text>> once command() has returned text
      onebyone |-> TRUE,    \* every delivery so far was a single byte
      connects |-> 0,       \* calls of connect() on the session
      closes   |-> 0,       \* calls of socket.close()
      timedout |-> FALSE ]  \* the facade returned through asyncio.TimeoutError

\* Rcon.__init__: no socket yet; nothing called
ApiInit == [socket |-> 0, sockets |-> <<>>, closes |-> <<>>, io |-> 0, log |-> <<>>]

InitRcon ==
    /\ op = NoOp /\ caller = "idle" /\ result = <<>> /\ raised = FALSE
    /\ elapsed = 0 /\ wpc = "idle" /\ phase = "auth"
    /\ socket = 0 /\ sockets = <<>>
    /\ want = 0 /\ data = <<>> /\ rtimer = 0 /\ inbox = <<>> /\ wres = <<>>
    /\ hist = HistInit

InitLoop ==
    /\ pending_users = {}
    /\ handlers = <<>> /\ workers = <<>> /\ bsockets = <<>> /\ sessions = <<>>
    /\ ticker = [pc |-> "idle", w |-> 0, n |-> 0, reposting |-> FALSE, status_message |-> 1]

\* WhitelistBot.__init__ (bot.py line 21): no status message yet; on_ready
\* has not run, nothing is in the channel.  Messages are numbered as they are
\* posted; shown[m] is the embed message m was last given.
BoardInit ==
    [pc |-> "start", status_message |-> 0, live |-> {}, posted |-> 0, deleted |-> 0,
     shown |-> <<>>, last |-> "none"]

InitSmall ==
    /\ api = ApiInit
    /\ codec = [step |-> "idle"]
    /\ parse = [step |-> "idle"]
    /\ calls = <<>>
    /\ admin = <<>>
    /\ views = <<>>
    /\ lookup = [step |-> "idle"]
    /\ board = BoardInit

\* no registration yet, nobody on the server
InitStats ==
    stats = [table |-> <<>>, now |-> 0, online |-> {}, n |-> 0, op |-> [kind |-> "none"]]

InitAux == InitSmall /\ InitStats

Init ==
    /\ InitRcon /\ InitLoop /\ InitAux
    /\ store = [u \in DiscordIds |-> <<>>] /\ whitelist = {}

\* disconnect that drops the handle without closing the socket
Rcon_disconnect_leak(sk, socks) == [socket |-> 0, sockets |-> socks, closed |-> 0]

\* disconnect that closes the socket and keeps the handle
Rcon_disconnect_again(sk, socks) ==
    IF sk # 0
    THEN [socket |-> sk, sockets |-> [socks EXCEPT ![sk] = "closed"], closed |-> 1]
    ELSE [socket |-> sk, sockets |-> socks, closed |-> 0]

\* Rcon.disconnect, lines 37-40, on (self.socket, the sockets): what they become
Rcon_disconnect(sk, socks) ==
    IF sk # 0
    THEN [socket |-> 0, sockets |-> [socks EXCEPT ![sk] = "closed"], closed |-> 1]
    ELSE [socket |-> sk, sockets |-> socks, closed |-> 0]

\* __exit__ that does not disconnect
Rcon_exit_skip(sk, socks) == [socket |-> sk, sockets |-> socks, closed |-> 0]

\* Rcon.__exit__, lines 21-22
Rcon_exit(sk, socks) == Rcon_disconnect(sk, socks)

\* connect() whose except clause re-raises without closing the socket
Rcon_connect_cleanup_none(sk, socks) == [socket |-> sk, sockets |-> socks, closed |-> 0]

\* the except clause of Rcon.connect, lines 31-34
Rcon_connect_cleanup(sk, socks) ==
    IF sk # 0
    THEN [socket |-> 0, sockets |-> [socks EXCEPT ![sk] = "closed"], closed |-> 1]
    ELSE [socket |-> sk, sockets |-> socks, closed |-> 0]

\* the worker functions' `except Exception: return False` / `return []`
WorkerExcept(o) == [exc |-> FALSE, val |-> FailureValue(o)]

\* the worker functions' return inside the `with` block
WorkerReturn(o, response) == [exc |-> FALSE, val |-> Interpret(o, response)]

\* An exception raised inside the session with message chain msgs, taken to the
\* end of the worker function.  In connect() (phase "auth") the except clause of
\* connect closes the socket and re-raises as "Connection failed: ..."; __enter__
\* did not return, so __exit__ does not run.  In command() (phase "cmd") the
\* exception leaves the `with` block through __exit__.  Either way the worker
\* function's own except clause turns it into the failure value.
SessionError(msgs, h) ==
    LET after == IF phase = "auth" THEN Rcon_connect_cleanup(socket, sockets)
                                   ELSE Rcon_exit(socket, sockets)
    IN  /\ socket' = after.socket
        /\ sockets' = after.sockets
        /\ wpc' = "done"
        /\ wres' = <<WorkerExcept(op)>>
        /\ hist' = [h EXCEPT !.err = IF phase = "auth" THEN <<E_connfail>> \o msgs ELSE msgs,
                             !.closes = @ + after.closed]
        /\ UNCHANGED phase

\* asyncio.to_thread starts the worker function: Rcon(...) is constructed and
\* __enter__ calls connect(), which creates the socket (lines 25-26) and blocks
\* in socket.connect (line 29)
Dispatch(o) ==
    /\ caller = "idle"
    /\ caller' = "waiting" /\ op' = o /\ elapsed' = 0
    /\ sockets' = Append(sockets, "open")
    /\ socket' = Len(sockets) + 1
    /\ wpc' = "connect" /\ phase' = "auth" /\ rtimer' = 0
    /\ hist' = [hist EXCEPT !.connects = @ + 1]
    /\ UNCHANGED <<result, raised, want, data, inbox, wres, botVars, auxVars>>

\* socket.connect returns within the socket timeout
ConnectOk ==
    /\ wpc = "connect" /\ rtimer < SocketTimeout
    /\ wpc' = "send" /\ rtimer' = 0
    /\ UNCHANGED <<op, caller, result, raised, elapsed, phase, socket, sockets,
                   want, data, inbox, wres, hist, botVars, auxVars>>

\* socket.connect raises ConnectionRefusedError
ConnectRefused ==
    /\ wpc = "connect" /\ rtimer < SocketTimeout
    /\ SessionError(<<"Connection refused">>, [hist EXCEPT !.fails = @ \cup {"refused"}])
    /\ UNCHANGED <<op, caller, result, raised, elapsed, want, data, rtimer, inbox, botVars, auxVars>>

\* socket.connect raises socket.timeout
ConnectTimeout ==
    /\ wpc = "connect" /\ rtimer = SocketTimeout
    /\ SessionError(<<"timed out">>, [hist EXCEPT !.fails = @ \cup {"connect_timeout"}])
    /\ UNCHANGED <<op, caller, result, raised, elapsed, want, data, rtimer, inbox, botVars, auxVars>>

\* the (out_type, out_data) of the _send call of each phase: connect() line 30,
\* command() line 88
SendArgs(ph, o) ==
    IF ph = "auth" THEN [type |-> SERVERDATA_AUTH, data |-> Password]
                   ELSE [type |-> SERVERDATA_EXECCOMMAND, data |-> CommandText(o)]

\* connect() that writes the AUTH request and returns without reading its response
SendRequest_nowait(reply) ==
    /\ wpc = "send"
    /\ IF socket = 0
       THEN SessionError(<<E_connect>>, hist) /\ UNCHANGED <<want, data, rtimer, inbox>>
       ELSE /\ hist' = [hist EXCEPT
                    !.wire = Append(@, OutFrame(SendArgs(phase, op).type, SendArgs(phase, op).data)),
                    !.overlap = @ \/ hist.unread,
                    !.unread = TRUE,
                    !.sent = Append(@, reply)]
            /\ inbox' = inbox \o reply
            /\ IF phase = "auth"
               THEN wpc' = "send" /\ phase' = "cmd" /\ UNCHANGED <<want, data>>
               ELSE wpc' = "read_len" /\ want' = 4 /\ data' = <<>> /\ UNCHANGED phase
            /\ rtimer' = 0
            /\ UNCHANGED <<socket, sockets, wres>>
    /\ UNCHANGED <<op, caller, result, raised, elapsed, botVars, auxVars>>

\* _send lines 56-65: the request is written, and the peer answers it with reply.
\* The worker is then in _read(4), line 67.
SendRequest(reply) ==
    /\ wpc = "send"
    /\ IF socket = 0
       THEN SessionError(<<E_connect>>, hist) /\ UNCHANGED <<want, data, rtimer, inbox>>
       ELSE /\ hist' = [hist EXCEPT
                    !.wire = Append(@, OutFrame(SendArgs(phase, op).type, SendArgs(phase, op).data)),
                    !.overlap = @ \/ hist.unread,
                    !.unread = TRUE,
                    !.sent = Append(@, reply)]
            /\ inbox' = inbox \o reply
            /\ wpc' = "read_len" /\ want' = 4 /\ data' = <<>> /\ rtimer' = 0
            /\ UNCHANGED <<phase, socket, sockets, wres>>
    /\ UNCHANGED <<op, caller, result, raised, elapsed, botVars, auxVars>>

\* socket.send raises (the connection was reset): `except Exception` of _send
SendFails ==
    /\ wpc = "send" /\ socket # 0
    /\ SessionError(<<E_send>>, [hist EXCEPT !.fails = @ \cup {"send_error"}])
    /\ UNCHANGED <<op, caller, result, raised, elapsed, want, data, rtimer, inbox, botVars, auxVars>>


\* what is wrong with a reply, as the peer sent it: its header is cut short,
\* its last two bytes are not 00 00, its payload is not UTF-8 ("malformed");
\* its requestId is -1 ("auth_rejected")
FrameFaults(reply) ==
    LET len  == UnpackI32(SubSeq(reply, 1, 4))
        body == SubSeq(reply, 5, 4 + len)
    IN  IF len < 8 \/ Len(body) < len THEN {"malformed"}
        ELSE (IF SubSeq(body, len - 1, len) # <<0, 0>>
                 \/ ~Utf8Decode(SubSeq(body, 9, len - 2)).ok
              THEN {"malformed"} ELSE {})
             \cup (IF UnpackI32(SubSeq(body, 1, 4)) = -1 THEN {"auth_rejected"} ELSE {})

LastSent == hist.sent[Len(hist.sent)]

\* _read that returns what a single recv delivered
ReadComplete_once(got, length) == TRUE

\* _read line 44: the loop ends once `length` bytes are there
ReadComplete(got, length) == Len(got) >= length

\* recv is asked for a buffer's worth, whatever is missing
RecvSize_buffer(length, got) == 4096

\* _read line 46: the size passed to recv
RecvSize(length, got) == length - Len(got)

\* _send lines 71-80 once in_payload is there, and what follows the return of
\* _send: after connect() the `with` body calls command(), whose _send is the
\* next step; after command() the worker function computes its result and
\* leaves the `with` block through __exit__.
GotResponse(in_payload, h) ==
    LET p  == ParseResponse(in_payload)
        h2 == [h EXCEPT !.unread = FALSE, !.got = Append(@, in_payload),
                        !.fails = @ \cup FrameFaults(LastSent)]
    IN  IF p.err # ""
        THEN SessionError(<<p.err>>, h2)
        ELSE IF phase = "auth"
        THEN /\ wpc' = "send" /\ phase' = "cmd"
             /\ hist' = h2
             /\ UNCHANGED <<socket, sockets, wres>>
        ELSE LET after == Rcon_exit(socket, sockets)
             IN  /\ wpc' = "done"
                 /\ wres' = <<WorkerReturn(op, p.text)>>
                 /\ socket' = after.socket /\ sockets' = after.sockets
                 /\ hist' = [h2 EXCEPT !.resp = <<p.text>>, !.closes = @ + after.closed]
                 /\ UNCHANGED phase

\* socket.recv(n) returns k bytes, 1 <= k <= n, of what the peer has sent
Recv(k) ==
    /\ wpc \in Reading /\ rtimer < SocketTimeout
    /\ k \in 1..Min(RecvSize(want, data), Len(inbox))
    /\ LET newdata == data \o SubSeq(inbox, 1, k)
           h1 == [hist EXCEPT !.onebyone = @ /\ k = 1]
       IN  /\ inbox' = SubSeq(inbox, k + 1, Len(inbox))
           /\ rtimer' = 0
           /\ IF ~ReadComplete(newdata, want)
              THEN /\ data' = newdata /\ hist' = h1
                   /\ UNCHANGED <<wpc, phase, want, socket, sockets, wres>>
              ELSE IF wpc = "read_len"
              THEN IF Len(newdata) # 4             \* struct.error, line 68
                   THEN /\ SessionError(<<E_send>>, h1)
                        /\ data' = newdata /\ UNCHANGED want
                   ELSE IF UnpackI32(newdata) > 0
                   THEN /\ wpc' = "read_body" /\ want' = UnpackI32(newdata)
                        /\ data' = <<>> /\ hist' = h1
                        /\ UNCHANGED <<phase, socket, sockets, wres>>
                   ELSE \* _read(in_length) with in_length <= 0 returns b"" at once
                        /\ GotResponse(<<>>, h1)
                        /\ data' = <<>> /\ want' = UnpackI32(newdata)
              ELSE /\ GotResponse(newdata, h1)
                   /\ data' = newdata /\ UNCHANGED want
    /\ UNCHANGED <<op, caller, result, raised, elapsed, botVars, auxVars>>

\* socket.recv raises socket.timeout: nothing arrived for SocketTimeout seconds
RecvTimeout ==
    /\ wpc \in Reading /\ rtimer = SocketTimeout
    /\ SessionError(<<E_timeout>>, [hist EXCEPT !.fails = @ \cup {"read_timeout"}])
    /\ UNCHANGED <<op, caller, result, raised, elapsed, want, data, rtimer, inbox, botVars, auxVars>>

\* socket.recv returns b"": the peer closed the connection; what it had not
\* yet sent never arrives
RecvClosed ==
    /\ wpc \in Reading /\ rtimer < SocketTimeout
    /\ SessionError(<<E_read, E_closed>>, [hist EXCEPT !.fails = @ \cup {"peer_closed"}])
    /\ inbox' = <<>>
    /\ UNCHANGED <<op, caller, result, raised, elapsed, want, data, rtimer, botVars, auxVars>>

\* wait_for without a timeout
wait_for_never(o, t) == FALSE

\* asyncio.wait_for: the timeout has expired
wait_for_expired(o, t) == t >= Deadline(o)

\* One second passes.  A timeout that is due fires before the clock moves on,
\* and so does every step that does not block (the send, the caller's resumption).
Tick ==
    /\ wpc \in Blocked /\ rtimer < SocketTimeout
    /\ caller = "waiting" => ~wait_for_expired(op, elapsed)
    /\ rtimer' = rtimer + 1
    /\ elapsed' = IF caller = "waiting" THEN elapsed + 1 ELSE elapsed
    /\ UNCHANGED <<op, caller, result, raised, wpc, phase, socket, sockets,
                   want, data, inbox, wres, hist, botVars, auxVars>>

\* the facade's `except asyncio.TimeoutError: return False` / `return []`;
\* the worker thread is left running
DeadlineExpires ==
    /\ caller = "waiting" /\ wait_for_expired(op, elapsed)
    /\ caller' = "returned" /\ result' = <<FailureValue(op)>>
    /\ hist' = [hist EXCEPT !.timedout = TRUE]
    /\ UNCHANGED <<op, raised, elapsed, wpc, phase, socket, sockets,
                   want, data, rtimer, inbox, wres, botVars, auxVars>>

\* what the facade coroutine does with the worker function's outcome:
\* `return await ...`, or `except Exception: log_error(...); return False`
FacadeReturn(o, w) ==
    IF w.exc THEN [raised |-> FALSE, val |-> FailureValue(o)]
             ELSE [raised |-> FALSE, val |-> w.val]

\* the worker function has returned and the awaiting facade coroutine resumes
Return ==
    /\ caller = "waiting" /\ wpc = "done"
    /\ caller' = "returned"
    /\ result' = <<FacadeReturn(op, wres[1]).val>>
    /\ raised' = FacadeReturn(op, wres[1]).raised
    /\ UNCHANGED <<op, elapsed, wpc, phase, socket, sockets,
                   want, data, rtimer, inbox, wres, hist, botVars, auxVars>>

Next ==
    \/ \E o \in Ops : Dispatch(o)
    \/ ConnectOk
    \/ ConnectRefused
    \/ ConnectTimeout
    \/ \E reply \in ServerReplies(phase, op) : SendRequest(reply)
    \/ SendFails
    \/ \E k \in 1..Max(1, Len(inbox)) : Recv(k)
    \/ RecvTimeout
    \/ RecvClosed
    \/ Tick
    \/ DeadlineExpires
    \/ Return

Spec == Init /\ [][Next]_vars

\* The same call against a host that never responds: the connection attempt
\* gets no answer or the connection is accepted and nothing is ever sent back.
SilentNext ==
    \/ \E o \in Ops : Dispatch(o)
    \/ ConnectOk
    \/ ConnectTimeout
    \/ SendRequest(<<>>)
    \/ RecvTimeout
    \/ Tick
    \/ DeadlineExpires
    \/ Return

\* the clock runs, the worker thread runs and the event loop runs its callbacks
SilentSpec == Init /\ [][SilentNext]_vars /\ WF_vars(SilentNext)

--------------------------------------------------------------------------
(* BotSpec: the event loop and its workers                                 *)
(* A worker function is followed through its blocking calls: connect() with*)
(* the AUTH exchange, then command() with the exit from the `with` block.  *)
(* The wait_for deadline may pass at any moment while a worker is running. *)

rconUnchanged == UNCHANGED <<rconVars, auxVars>>

\* the Rcon(...) of a worker function's `with` statement: a new object per call
NewSession(ss, w) ==
    [sessions |-> Append(ss, [socket |-> 0, creator |-> w, users |-> {}]),
     id |-> Len(ss) + 1]

\* one Rcon object kept by the manager and used by every call
NewSession_shared(ss, w) ==
    IF ss = <<>> THEN [sessions |-> Append(ss, [socket |-> 0, creator |-> w, users |-> {}]),
                       id |-> 1]
    ELSE [sessions |-> ss, id |-> 1]

\* minecraft.py line 50 / 69 / 93 / 113
SessionFor(ss, w) == NewSession(ss, w)

\* asyncio.to_thread(worker function): worker Len(workers) + 1 starts, builds
\* its Rcon, and connect() creates the socket (rcon.py lines 25-26)
StartWorker(o, owner) ==
    LET w   == Len(workers) + 1
        new == SessionFor(sessions, w)
        sk  == Len(bsockets) + 1
    IN  /\ workers' = Append(workers,
              [op |-> o, sid |-> new.id, pc |-> "connect", res |-> <<>>, owner |-> owner])
        /\ bsockets' = Append(bsockets, [state |-> "open", creator |-> w, users |-> {w}])
        /\ sessions' = [new.sessions EXCEPT ![new.id].socket = sk,
                                            ![new.id].users = @ \cup {w}]

\* worker w uses the socket its session holds
Touch(socks, sk, w) == IF sk = 0 THEN socks ELSE [socks EXCEPT ![sk].users = @ \cup {w}]
CloseSocket(socks, sk, w) ==
    IF sk = 0 THEN socks
    ELSE [socks EXCEPT ![sk].users = @ \cup {w}, ![sk].state = "closed"]

\* connect() of worker w returns (ok) or raises; its except clause closes the
\* socket and the worker function returns the failure value
W_Connect(w, ok) ==
    /\ w \in 1..Len(workers) /\ workers[w].pc = "connect"
    /\ LET sid == workers[w].sid
           sk  == sessions[sid].socket
       IN  IF ok
           THEN /\ workers' = [workers EXCEPT ![w].pc = "command"]
                /\ bsockets' = Touch(bsockets, sk, w)
                /\ sessions' = [sessions EXCEPT ![sid].users = @ \cup {w}]
           ELSE /\ workers' = [workers EXCEPT ![w].pc = "done",
                                              ![w].res = <<FailureValue(workers[w].op)>>]
                /\ bsockets' = CloseSocket(bsockets, sk, w)
                /\ sessions' = [sessions EXCEPT ![sid].users = @ \cup {w},
                                                ![sid].socket = 0]
    /\ UNCHANGED <<pending_users, store, whitelist, handlers, ticker>>
    /\ rconUnchanged

\* the game server runs a command: the whitelist afterwards and the answer
ServerRun(wl, o) ==
    CASE o.name = "add_to_whitelist" ->
            IF o.username \in wl THEN [wl |-> wl, text |-> T_already]
                                 ELSE [wl |-> wl \cup {o.username}, text |-> T_Added]
      [] o.name = "remove_from_whitelist" ->
            IF o.username \in wl THEN [wl |-> wl \ {o.username}, text |-> T_Removed]
                                 ELSE [wl |-> wl, text |-> T_not_on]
      [] OTHER -> [wl |-> wl, text |-> R_none]

\* the lookup finds no registration, whatever the table holds
get_user_absent(st, uid) == <<>>

\* DatabaseManager.get_user / add_user on the table
get_user(st, uid) == st[uid]
add_user(st, uid, name) == [st EXCEPT ![uid] = name]

\* the add worker writes the registration itself, from its thread
W_Command_registers(w, how) ==
    /\ w \in 1..Len(workers) /\ workers[w].pc = "command"
    /\ LET sid == workers[w].sid
           sk  == sessions[sid].socket
           o   == workers[w].op
           run == ServerRun(whitelist, o)
           reached == sk # 0 /\ how # "lost"
           added == /\ reached /\ how = "answered" /\ o.name = "add_to_whitelist"
                    /\ workers[w].owner # 0 /\ Interpret(o, run.text)
       IN  /\ whitelist' = IF reached THEN run.wl ELSE whitelist
           /\ workers' = [workers EXCEPT ![w].pc = "done",
                  ![w].res = IF reached /\ how = "answered"
                             THEN <<Interpret(o, run.text)>>
                             ELSE <<FailureValue(o)>>]
           /\ bsockets' = CloseSocket(bsockets, sk, w)
           /\ sessions' = [sessions EXCEPT ![sid].users = @ \cup {w}, ![sid].socket = 0]
           /\ store' = IF added THEN add_user(store, handlers[workers[w].owner].uid, o.username)
                                ELSE store
    /\ UNCHANGED <<pending_users, handlers, ticker>>
    /\ rconUnchanged

\* command() of worker w and the exit from the `with` block.  how = "lost": the
\* request does not reach the server; "answered": the server runs it and the
\* response is read; "unanswered": the server runs it and the read fails.
W_Command(w, how) ==
    /\ w \in 1..Len(workers) /\ workers[w].pc = "command"
    /\ LET sid == workers[w].sid
           sk  == sessions[sid].socket
           o   == workers[w].op
           run == ServerRun(whitelist, o)
           reached == sk # 0 /\ how # "lost"
       IN  /\ whitelist' = IF reached THEN run.wl ELSE whitelist
           /\ workers' = [workers EXCEPT ![w].pc = "done",
                  ![w].res = IF reached /\ how = "answered"
                             THEN <<Interpret(o, run.text)>>
                             ELSE <<FailureValue(o)>>]
           /\ bsockets' = CloseSocket(bsockets, sk, w)
           /\ sessions' = [sessions EXCEPT ![sid].users = @ \cup {w}, ![sid].socket = 0]
    /\ UNCHANGED <<pending_users, store, handlers, ticker>>
    /\ rconUnchanged

\* what `await asyncio.wait_for(asyncio.to_thread(...), timeout)` gives the
\* coroutine that resumes: the worker's value, or the failure value when the
\* deadline passes first
Awaited(w) ==
    IF workers[w].pc = "done" THEN workers[w].res[1] ELSE FailureValue(workers[w].op)

\* discord_ui.py line 42 and line 48
IsPending(p, uid) == uid \in p
MarkPending_forgotten(p, uid) == p
MarkPending(p, uid) == p \cup {uid}

InSequence == {"ack", "validate", "add"}

\* on_submit, lines 30-51: up to the first await
Submit(uid, name) ==
    /\ Len(handlers) < MaxSubmits
    /\ LET busy == \E h \in 1..Len(handlers) :
                       handlers[h].uid = uid /\ handlers[h].pc \in InSequence
           new  == [uid |-> uid, name |-> name, pc |-> "done", reply |-> "",
                    did |-> {}, is_valid |-> <<>>, w |-> 0, concurrent |-> busy]
       IN  IF get_user(store, uid) # <<>>
           THEN /\ handlers' = Append(handlers, [new EXCEPT !.reply = "Already registered"])
                /\ UNCHANGED pending_users
           ELSE IF IsPending(pending_users, uid)
           THEN /\ handlers' = Append(handlers, [new EXCEPT !.reply = "Already processing"])
                /\ UNCHANGED pending_users
           ELSE /\ pending_users' = MarkPending(pending_users, uid)
                /\ handlers' = Append(handlers,
                       [new EXCEPT !.reply = "Checking username", !.pc = "ack"])
    /\ UNCHANGED <<store, whitelist, workers, bsockets, sessions, ticker>>
    /\ rconUnchanged

\* line 49 returns: the try block is entered and validate_minecraft_username
\* is awaited (line 54)
AckSent(h) ==
    /\ h \in 1..Len(handlers) /\ handlers[h].pc = "ack"
    /\ handlers' = [handlers EXCEPT ![h].pc = "validate", ![h].did = @ \cup {"validate"}]
    /\ UNCHANGED <<pending_users, store, whitelist, workers, bsockets, sessions, ticker>>
    /\ rconUnchanged

\* line 49 raises: the handler ends before its try block
AckFails(h) ==
    /\ h \in 1..Len(handlers) /\ handlers[h].pc = "ack"
    /\ handlers' = [handlers EXCEPT ![h].pc = "done"]
    /\ UNCHANGED <<pending_users, store, whitelist, workers, bsockets, sessions, ticker>>
    /\ rconUnchanged

\* add_to_whitelist is awaited whatever the validation said
Validated_unchecked(h, is_valid) ==
    /\ h \in 1..Len(handlers) /\ handlers[h].pc = "validate"
    /\ StartWorker([name |-> "add_to_whitelist", username |-> handlers[h].name], h)
    /\ handlers' = [handlers EXCEPT ![h].pc = "add", ![h].did = @ \cup {"rcon"},
                                    ![h].is_valid = <<is_valid>>,
                                    ![h].w = Len(workers) + 1]
    /\ UNCHANGED <<pending_users, store, whitelist, ticker>>
    /\ rconUnchanged

\* validate_minecraft_username returns; a valid name goes on to
\* add_to_whitelist (line 57), an invalid one to the follow-up (line 74)
Validated(h, is_valid) ==
    /\ h \in 1..Len(handlers) /\ handlers[h].pc = "validate"
    /\ IF is_valid
       THEN /\ StartWorker([name |-> "add_to_whitelist", username |-> handlers[h].name], h)
            /\ handlers' = [handlers EXCEPT ![h].pc = "add", ![h].did = @ \cup {"rcon"},
                                            ![h].is_valid = <<TRUE>>,
                                            ![h].w = Len(workers) + 1]
       ELSE /\ handlers' = [handlers EXCEPT ![h].pc = "followup", ![h].is_valid = <<FALSE>>]
            /\ UNCHANGED <<workers, bsockets, sessions>>
    /\ UNCHANGED <<pending_users, store, whitelist, ticker>>
    /\ rconUnchanged

\* add_to_whitelist returns (lines 57-72); on success the registration is
\* written, db_ok telling whether add_user succeeded
AddReturns(h, db_ok) ==
    /\ h \in 1..Len(handlers) /\ handlers[h].pc = "add"
    /\ IF Awaited(handlers[h].w)
       THEN /\ store' = IF db_ok THEN add_user(store, handlers[h].uid, handlers[h].name)
                                 ELSE store
            /\ handlers' = [handlers EXCEPT ![h].pc = "followup", ![h].did = @ \cup {"store"}]
       ELSE /\ handlers' = [handlers EXCEPT ![h].pc = "followup"]
            /\ UNCHANGED store
    /\ UNCHANGED <<pending_users, whitelist, workers, bsockets, sessions, ticker>>
    /\ rconUnchanged

\* the follow-up send returns, or raises and the send of the except clause
\* (line 78) is over: the finally clause runs (line 83)
FollowupDone(h) ==
    /\ h \in 1..Len(handlers) /\ handlers[h].pc \in {"followup", "error"}
    /\ handlers' = [handlers EXCEPT ![h].pc = "done"]
    /\ pending_users' = pending_users \ {handlers[h].uid}
    /\ UNCHANGED <<store, whitelist, workers, bsockets, sessions, ticker>>
    /\ rconUnchanged

\* the follow-up send raises: the except clause sends its own message
FollowupFails(h) ==
    /\ h \in 1..Len(handlers) /\ handlers[h].pc = "followup"
    /\ handlers' = [handlers EXCEPT ![h].pc = "error"]
    /\ UNCHANGED <<pending_users, store, whitelist, workers, bsockets, sessions, ticker>>
    /\ rconUnchanged

\* update_status_task -> create_server_status_embed: is_server_running is awaited
TickStart ==
    /\ ticker.pc = "idle" /\ ticker.n < MaxTicks /\ ticker.status_message # 0
    /\ StartWorker([name |-> "is_server_running", username |-> <<>>], 0)
    /\ ticker' = [ticker EXCEPT !.pc = "check", !.w = Len(workers) + 1, !.n = @ + 1]
    /\ UNCHANGED <<pending_users, store, whitelist, handlers>>
    /\ rconUnchanged

\* how the send that ends a rendering can go: status_message.edit returns;
\* raises; raises "Unknown Message"; raises "Unknown Message" and get_channel
\* finds no channel.  For post_initial_status_message: channel.send returns
\* ("ok") or raises.
EditOutcomes == {"ok", "error", "unknown", "nochannel"}

\* the embed is built.  In update_status_task (lines 77-83) the message is
\* edited, and on "Unknown Message" post_initial_status_message renders again
\* (line 64); in post_initial_status_message (line 65) the message sent
\* becomes status_message
Rendered(outcome) ==
    IF ticker.reposting
    THEN /\ ticker' = [ticker EXCEPT !.pc = "idle", !.w = 0, !.reposting = FALSE,
                            !.status_message = IF outcome = "ok" THEN @ + 1 ELSE @]
         /\ UNCHANGED <<workers, bsockets, sessions>>
    ELSE IF outcome = "unknown"
    THEN /\ StartWorker([name |-> "is_server_running", username |-> <<>>], 0)
         /\ ticker' = [ticker EXCEPT !.pc = "check", !.w = Len(workers) + 1,
                                     !.reposting = TRUE]
    ELSE /\ ticker' = [ticker EXCEPT !.pc = "idle", !.w = 0]
         /\ UNCHANGED <<workers, bsockets, sessions>>

\* is_server_running returns: if True, get_player_list is awaited, otherwise
\* the embed says Offline
TickChecked(outcome) ==
    /\ ticker.pc = "check"
    /\ IF Awaited(ticker.w)
       THEN /\ StartWorker([name |-> "get_player_list", username |-> <<>>], 0)
            /\ ticker' = [ticker EXCEPT !.pc = "list", !.w = Len(workers) + 1]
       ELSE Rendered(outcome)
    /\ UNCHANGED <<pending_users, store, whitelist, handlers>>
    /\ rconUnchanged

\* get_player_list returns and the embed lists the players
TickListed(outcome) ==
    /\ ticker.pc = "list"
    /\ Rendered(outcome)
    /\ UNCHANGED <<pending_users, store, whitelist, handlers>>
    /\ rconUnchanged

\* the loop while its status message exists
BotNext ==
    \/ \E uid \in DiscordIds, name \in Usernames : Submit(uid, name)
    \/ \E h \in 1..MaxSubmits : AckSent(h)
    \/ \E h \in 1..MaxSubmits : AckFails(h)
    \/ \E h \in 1..MaxSubmits, v \in BOOLEAN : Validated(h, v)
    \/ \E h \in 1..MaxSubmits, db_ok \in BOOLEAN : AddReturns(h, db_ok)
    \/ \E h \in 1..MaxSubmits : FollowupDone(h)
    \/ \E h \in 1..MaxSubmits : FollowupFails(h)
    \/ TickStart
    \/ \E outcome \in {"ok", "error"} : TickChecked(outcome)
    \/ \E outcome \in {"ok", "error"} : TickListed(outcome)
    \/ \E w \in 1..(MaxSubmits + 2 * MaxTicks), ok \in BOOLEAN : W_Connect(w, ok)
    \/ \E w \in 1..(MaxSubmits + 2 * MaxTicks),
          how \in {"lost", "answered", "unanswered"} : W_Command(w, how)

BotSpec == Init /\ [][BotNext]_vars

\* the bot after a first application went through: Ann is registered to
\* Discord id 1 and whitelisted, the handler and its worker are over
LoopInit ==
    /\ InitRcon /\ InitAux
    /\ pending_users = {}
    /\ store = [u \in DiscordIds |-> IF u = 1 THEN <<65, 110, 110>> ELSE <<>>]
    /\ whitelist = { <<65, 110, 110>> }
    /\ handlers = << [uid |-> 1, name |-> <<65, 110, 110>>, pc |-> "done",
                      reply |-> "Checking username", did |-> {"validate", "rcon", "store"},
                      is_valid |-> <<TRUE>>, w |-> 1, concurrent |-> FALSE] >>
    /\ workers = << [op |-> [name |-> "add_to_whitelist", username |-> <<65, 110, 110>>],
                     sid |-> 1, pc |-> "done", res |-> <<TRUE>>, owner |-> 1] >>
    /\ bsockets = << [state |-> "closed", creator |-> 1, users |-> {1}] >>
    /\ sessions = << [socket |-> 0, creator |-> 1, users |-> {1}] >>
    /\ ticker = [pc |-> "idle", w |-> 0, n |-> 0, reposting |-> FALSE, status_message |-> 1]

\* the loop, its status message possibly deleted under it
LoopNext ==
    \/ \E uid \in DiscordIds, name \in Usernames : Submit(uid, name)
    \/ \E h \in 1..MaxSubmits : AckSent(h)
    \/ \E h \in 1..MaxSubmits : AckFails(h)
    \/ \E h \in 1..MaxSubmits, v \in BOOLEAN : Validated(h, v)
    \/ \E h \in 1..MaxSubmits, db_ok \in BOOLEAN : AddReturns(h, db_ok)
    \/ \E h \in 1..MaxSubmits : FollowupDone(h)
    \/ \E h \in 1..MaxSubmits : FollowupFails(h)
    \/ TickStart
    \/ \E outcome \in EditOutcomes : TickChecked(outcome)
    \/ \E outcome \in EditOutcomes : TickListed(outcome)
    \/ \E w \in 1..(MaxSubmits + 4 * MaxTicks), ok \in BOOLEAN : W_Connect(w, ok)
    \/ \E w \in 1..(MaxSubmits + 4 * MaxTicks),
          how \in {"lost", "answered", "unanswered"} : W_Command(w, how)

LoopSpec == LoopInit /\ [][LoopNext]_vars

--------------------------------------------------------------------------
(* ApiSpec: one Rcon object, its methods called in any order               *)

\* socket.close() on socket sk, counted
Closed(counts, sk, n) == IF sk = 0 THEN counts ELSE [counts EXCEPT ![sk] = @ + n]

ApiLogged(call, exc, held) == [call |-> call, raised |-> exc, held |-> held, err |-> ""]

\* what a command() on a connected session can raise (lines 48-85)
CommandErrors == {E_closed, E_timeout, E_read, E_padding, E_send}

\* _send goes on to the socket whether or not there is one
MustConnect_skipped(sk) == FALSE

\* _send, lines 57-58: `if self.socket is None: raise RconException(...)`
MustConnect(sk) == sk = 0

ApiUnchanged == UNCHANGED <<rconVars, botVars, codec, parse, calls, admin, sideVars>>

\* line 25 drops the last reference to the socket self.socket held, without
\* closing it: whether and when the runtime finalizes (and so closes) an
\* unreferenced socket is up to the interpreter
Dropped(sk, socks, finalized) ==
    IF sk # 0 /\ finalized THEN [socks EXCEPT ![sk] = "closed"] ELSE socks

\* Rcon.connect, lines 24-35: a new socket replaces whatever self.socket held;
\* ok tells whether socket.connect and the AUTH exchange went through
Api_connect(ok) ==
    /\ Len(api.log) < MaxCalls
    /\ \E finalized \in (IF api.socket = 0 THEN {FALSE} ELSE BOOLEAN) :
       LET sk    == Len(api.sockets) + 1
           socks == Append(Dropped(api.socket, api.sockets, finalized), "open")
           after == IF ok THEN [socket |-> sk, sockets |-> socks, closed |-> 0]
                          ELSE Rcon_connect_cleanup(sk, socks)
       IN  api' = [socket  |-> after.socket,
                   sockets |-> after.sockets,
                   closes  |-> Closed(Append(api.closes, 0), sk, after.closed),
                   io      |-> api.io + 1,
                   log     |-> Append(api.log,
                                  [ApiLogged("connect", ~ok, api.socket)
                                       EXCEPT !.err = IF ok THEN "" ELSE E_connfail])]
    /\ ApiUnchanged

\* Rcon.disconnect, lines 37-40
Api_disconnect ==
    /\ Len(api.log) < MaxCalls
    /\ LET after == Rcon_disconnect(api.socket, api.sockets)
       IN  api' = [api EXCEPT !.socket  = after.socket,
                              !.sockets = after.sockets,
                              !.closes  = Closed(@, api.socket, after.closed),
                              !.log     = Append(@, ApiLogged("disconnect", FALSE, api.socket))]
    /\ ApiUnchanged

\* Rcon.command, lines 87-88 and 56-85: without a socket _send raises at once;
\* with one, the exchange succeeds (ok) or raises, and the socket is kept
Api_command(ok) ==
    /\ Len(api.log) < MaxCalls
    /\ IF MustConnect(api.socket)
       THEN api' = [api EXCEPT !.log = Append(@, [ApiLogged("command", TRUE, 0)
                                                     EXCEPT !.err = E_connect])]
       ELSE \E err \in (IF ok THEN {""} ELSE CommandErrors) :
                api' = [api EXCEPT !.io = @ + 1,
                                   !.log = Append(@, [ApiLogged("command", ~ok, api.socket)
                                                          EXCEPT !.err = err])]
    /\ ApiUnchanged

ApiNext ==
    \/ \E ok \in BOOLEAN : Api_connect(ok)
    \/ Api_disconnect
    \/ \E ok \in BOOLEAN : Api_command(ok)

ApiSpec == Init /\ [][ApiNext]_vars

--------------------------------------------------------------------------
(* CodecSpec: a frame is written, by _send or by the peer, possibly damaged *)
(* on the way, and taken apart by the reading half of _send                *)

\* "A", e-acute (2 bytes), the euro sign (3 bytes), U+1F600 (4 bytes)
Alphabet == {65, 233, 8364, 128512}
Texts == UNION { [1..n -> Alphabet] : n \in 0..MaxText }

CodecUnchanged == UNCHANGED <<rconVars, botVars, api, parse, calls, admin, sideVars>>

\* _send(out_type, out_data) writes its request, lines 61-65
Codec_send(out_type, out_data) ==
    /\ codec.step = "idle"
    /\ codec' = [step |-> "written", by |-> "client", id |-> RequestId, type |-> out_type,
                 text |-> out_data, wire |-> OutFrame(out_type, out_data), intact |-> TRUE]
    /\ CodecUnchanged

\* the peer writes a response frame
Codec_peer(id, type, text) ==
    /\ codec.step = "idle"
    /\ codec' = [step |-> "written", by |-> "peer", id |-> id, type |-> type,
                 text |-> text, wire |-> ServerFrame(id, type, text), intact |-> TRUE]
    /\ CodecUnchanged

\* the two last bytes arrive as b1 b2
Codec_damage(b1, b2) ==
    /\ codec.step = "written" /\ codec.intact
    /\ <<b1, b2>> # <<0, 0>>
    /\ codec' = [codec EXCEPT !.intact = FALSE,
                     !.wire = SubSeq(@, 1, Len(@) - 2) \o <<b1, b2>>]
    /\ CodecUnchanged

\* only the first n bytes after the prefix were framed, with a prefix of n
Codec_cut(n) ==
    /\ codec.step = "written" /\ codec.intact
    /\ n < Len(codec.wire) - 4
    /\ codec' = [codec EXCEPT !.intact = FALSE,
                     !.wire = PackI32(n) \o SubSeq(@, 5, 4 + n)]
    /\ CodecUnchanged

\* lines 67-80: the frame is read and taken apart; `returned` is what _send
\* returns, <<>> if it raises
Codec_read ==
    /\ codec.step = "written"
    /\ LET in_payload == InPayload(codec.wire)
           p == ParseResponse(in_payload)
       IN  codec' = [step |-> "read", by |-> codec.by, id |-> codec.id, type |-> codec.type,
                     text |-> codec.text, wire |-> codec.wire, intact |-> codec.intact,
                     in_payload |-> in_payload,
                     fields |-> IF Len(in_payload) >= 8 THEN <<Unpacked(in_payload)>> ELSE <<>>,
                     err |-> p.err,
                     returned |-> IF p.err = "" THEN <<p.text>> ELSE <<>>]
    /\ CodecUnchanged

CodecNext ==
    \/ \E t \in {SERVERDATA_AUTH, SERVERDATA_EXECCOMMAND}, x \in Texts : Codec_send(t, x)
    \/ \E id \in {-1, 0, 1}, t \in {0, 2}, x \in Texts : Codec_peer(id, t, x)
    \/ \E b1, b2 \in {0, 1, 255} : Codec_damage(b1, b2)
    \/ \E n \in -1..9 : Codec_cut(n)
    \/ Codec_read

CodecSpec == Init /\ [][CodecNext]_vars

--------------------------------------------------------------------------
(* ParseSpec: a worker function issues its command and turns the response  *)
(* text, or the failure of the session, into its result                    *)

\* "There are 2 of a max 20 players online: Alice, Bob"
Ex_two == <<84, 104, 101, 114, 101, 32, 97, 114, 101, 32, 50, 32, 111, 102,
    32, 97, 32, 109, 97, 120, 32, 50, 48, 32, 112, 108, 97, 121, 101, 114,
    115, 32, 111, 110, 108, 105, 110, 101, 58, 32, 65, 108, 105, 99, 101, 44,
    32, 66, 111, 98>>
\* "There are 0 of a max 20 players online:"
Ex_zero == <<84, 104, 101, 114, 101, 32, 97, 114, 101, 32, 48, 32, 111, 102,
    32, 97, 32, 109, 97, 120, 32, 50, 48, 32, 112, 108, 97, 121, 101, 114,
    115, 32, 111, 110, 108, 105, 110, 101, 58>>
\* "Unknown command"
Ex_banner == <<85, 110, 107, 110, 111, 119, 110, 32, 99, 111, 109, 109, 97,
    110, 100>>
\* "Added Ann to the whitelist"
Ex_added == <<65, 100, 100, 101, 100, 32, 65, 110, 110, 32, 116, 111, 32,
    116, 104, 101, 32, 119, 104, 105, 116, 101, 108, 105, 115, 116>>
\* "Player is already whitelisted"
Ex_already == <<80, 108, 97, 121, 101, 114, 32, 105, 115, 32, 97, 108, 114,
    101, 97, 100, 121, 32, 119, 104, 105, 116, 101, 108, 105, 115, 116, 101,
    100>>
\* "Removed Ann from the whitelist"
Ex_removed == <<82, 101, 109, 111, 118, 101, 100, 32, 65, 110, 110, 32, 102,
    114, 111, 109, 32, 116, 104, 101, 32, 119, 104, 105, 116, 101, 108, 105,
    115, 116>>
\* "Ann is not on the whitelist"
Ex_noton == <<65, 110, 110, 32, 105, 115, 32, 110, 111, 116, 32, 111, 110,
    32, 116, 104, 101, 32, 119, 104, 105, 116, 101, 108, 105, 115, 116>>
\* "That player does not exist"
Ex_other == <<84, 104, 97, 116, 32, 112, 108, 97, 121, 101, 114, 32, 100,
    111, 101, 115, 32, 110, 111, 116, 32, 101, 120, 105, 115, 116>>
\* "added"
W_added == <<97, 100, 100, 101, 100>>
\* "Adde"
W_Adde == <<65, 100, 100, 101>>
\* "alread"
W_alread == <<97, 108, 114, 101, 97, 100>>
\* "removed"
W_removed == <<114, 101, 109, 111, 118, 101, 100>>
\* "noton"
W_noton == <<110, 111, 116, 111, 110>>
\* "x "
W_pre == <<120, 32>>
\* " y"
W_post == <<32, 121>>

\* generated `list` responses: "A", ":", " ", ",", tab
RosterAlphabet == {65, 58, 32, 44, 9}
RosterTexts ==
    UNION { [1..n -> RosterAlphabet] : n \in 0..MaxRoster } \cup {Ex_two, Ex_zero, Ex_banner}

\* the words a whitelist response is built around
ReplyWords ==
    { T_Added, T_already, T_Removed, T_not_on, W_added, W_Adde, W_alread, W_removed,
      W_noton, R_no, <<>>, Ex_added, Ex_already, Ex_removed, Ex_noton, Ex_other }

\* a response text as pre \o word \o post
ResponseInputs(o) ==
    IF o.name \in {"is_server_running", "get_player_list"}
    THEN { [pre |-> <<>>, word |-> t, post |-> <<>>] : t \in RosterTexts }
    ELSE { [pre |-> a, word |-> w, post |-> b] :
               a \in {<<>>, W_pre}, w \in ReplyWords, b \in {<<>>, W_post} }

ParseUnchanged == UNCHANGED <<rconVars, botVars, api, codec, calls, admin, sideVars>>

\* the worker function calls mcr.command(...)
Parse_call(o) ==
    /\ parse.step = "idle"
    /\ parse' = [step |-> "called", op |-> o, command |-> CommandText(o)]
    /\ ParseUnchanged

\* command() returns the text; the worker returns and the facade passes it on
Parse_respond(built) ==
    /\ parse.step = "called"
    /\ built \in ResponseInputs(parse.op)
    /\ LET text == built.pre \o built.word \o built.post
       IN  parse' = [step |-> "returned", op |-> parse.op, command |-> parse.command,
                     how |-> "text", built |-> built, response |-> text,
                     result |-> FacadeReturn(parse.op, WorkerReturn(parse.op, text)).val]
    /\ ParseUnchanged

\* the session raises (connect, send, read or parse): except Exception
Parse_raise ==
    /\ parse.step = "called"
    /\ parse' = [step |-> "returned", op |-> parse.op, command |-> parse.command,
                 how |-> "raised", built |-> [pre |-> <<>>, word |-> <<>>, post |-> <<>>],
                 response |-> <<>>,
                 result |-> FacadeReturn(parse.op, WorkerExcept(parse.op)).val]
    /\ ParseUnchanged

\* the deadline of asyncio.wait_for passes first: except asyncio.TimeoutError
Parse_timeout ==
    /\ parse.step = "called"
    /\ parse' = [step |-> "returned", op |-> parse.op, command |-> parse.command,
                 how |-> "timeout", built |-> [pre |-> <<>>, word |-> <<>>, post |-> <<>>],
                 response |-> <<>>,
                 result |-> FailureValue(parse.op)]
    /\ ParseUnchanged

ParseNext ==
    \/ \E o \in Ops : Parse_call(o)
    \/ \E built \in (IF parse.step = "called" THEN ResponseInputs(parse.op) ELSE {}) :
          Parse_respond(built)
    \/ Parse_raise
    \/ Parse_timeout

ParseSpec == Init /\ [][ParseNext]_vars

--------------------------------------------------------------------------
(* FacadeSpec: facade calls awaited one after the other                    *)

\* how a facade call can go: the server is not reached; it runs the command
\* and the response is read in time; it runs the command and the response is
\* not read; it runs the command and the response is read after the deadline
Outcomes == {"unreachable", "answered", "unanswered", "late"}

\* the whitelist after the call, the text the server answered with and the
\* value the facade returns
FacadeOutcome(wl, o, how) ==
    LET run == ServerRun(wl, o)
    IN  IF how = "unreachable"
        THEN [wl |-> wl, text |-> <<>>,
              result |-> FacadeReturn(o, WorkerExcept(o)).val]
        ELSE IF how = "answered"
        THEN [wl |-> run.wl, text |-> run.text,
              result |-> FacadeReturn(o, WorkerReturn(o, run.text)).val]
        ELSE IF how = "unanswered"
        THEN [wl |-> run.wl, text |-> run.text,
              result |-> FacadeReturn(o, WorkerExcept(o)).val]
        ELSE [wl |-> run.wl, text |-> run.text, result |-> FailureValue(o)]

\* `await manager.<o>(...)` from start to return
Facade_call(o, how) ==
    /\ Len(calls) < MaxFacade
    /\ LET out == FacadeOutcome(whitelist, o, how)
       IN  /\ whitelist' = out.wl
           /\ calls' = Append(calls, [op |-> o, how |-> how, text |-> out.text,
                                      result |-> out.result, wl |-> out.wl])
    /\ UNCHANGED <<rconVars, pending_users, store, handlers, workers, bsockets, sessions,
                   ticker, api, codec, parse, admin, sideVars>>

FacadeNext == \E o \in Ops, how \in Outcomes : Facade_call(o, how)

FacadeSpec == Init /\ [][FacadeNext]_vars

--------------------------------------------------------------------------
(* AdminSpec: the remove_whitelist and list_whitelist commands (bot.py,    *)
(* setup_commands), on a store that holds registrations                    *)

N_ann == <<97, 110, 110>>    \* "ann"
N_Zed == <<90, 101, 100>>    \* "Zed"

\* what an administrator may type as target: "1", "2", "3", names, "ann", "Zed"
Targets == { <<49>>, <<50>>, <<51>> } \cup Usernames \cup {N_ann, N_Zed}

\* str.isdigit() and int() on ASCII digits
IsDigit(t) == t # <<>> /\ \A i \in 1..Len(t) : t[i] >= 48 /\ t[i] <= 57

RECURSIVE ParseInt(_)
ParseInt(t) == IF t = <<>> THEN 0 ELSE 10 * ParseInt(SubSeq(t, 1, Len(t) - 1)) + (t[Len(t)] - 48)

\* str.lower() on ASCII
Lower(t) == [i \in 1..Len(t) |-> IF t[i] >= 65 /\ t[i] <= 90 THEN t[i] + 32 ELSE t[i]]

\* DatabaseManager.get_all_users: one row of five columns per registration
\* (discord_id, minecraft_username, created_at, joined_at, is_online), by id
RECURSIVE RowsFrom(_, _)
RowsFrom(st, ids) ==
    IF ids = {} THEN <<>>
    ELSE LET u == CHOOSE x \in ids : \A y \in ids : x <= y
         IN  (IF st[u] = <<>> THEN <<>> ELSE << <<u, st[u], 0, 0, 0>> >>)
                 \o RowsFrom(st, ids \ {u})

get_all_users(st) == RowsFrom(st, DOMAIN st)

\* DatabaseManager.remove_user: the table afterwards and the value returned
remove_user(st, uid, db_ok) ==
    IF db_ok THEN [store |-> [st EXCEPT ![uid] = <<>>], ok |-> st[uid] # <<>>]
             ELSE [store |-> st, ok |-> FALSE]

\* `for discord_id, minecraft_username in all_users` (bot.py line 186) on one
\* row: ValueError unless the row has exactly two columns
RowPair(row) ==
    IF Len(row) = 2
    THEN [ok |-> TRUE, discord_id |-> row[1], minecraft_username |-> row[2]]
    ELSE [ok |-> FALSE, discord_id |-> 0, minecraft_username |-> <<>>]

\* lines 186-189: the first row whose username equals the target ignoring
\* case; found = FALSE if there is none; exc = TRUE if unpacking a row raised
RECURSIVE FindByName(_, _)
FindByName(rows, target) ==
    IF rows = <<>> THEN [exc |-> FALSE, found |-> FALSE, uid |-> 0, name |-> <<>>]
    ELSE LET r == RowPair(Head(rows))
         IN  IF ~r.ok THEN [exc |-> TRUE, found |-> FALSE, uid |-> 0, name |-> <<>>]
             ELSE IF Lower(r.minecraft_username) = Lower(target)
             THEN [exc |-> FALSE, found |-> TRUE, uid |-> r.discord_id,
                   name |-> r.minecraft_username]
             ELSE FindByName(Tail(rows), target)

\* lines 147-149 and 183-197: the registration the target stands for
FindTarget(st, target) ==
    IF IsDigit(target)
    THEN LET discord_id == ParseInt(target)
             minecraft_username == IF discord_id \in DOMAIN st THEN get_user(st, discord_id)
                                                               ELSE <<>>
         IN  [exc |-> FALSE, found |-> minecraft_username # <<>>, uid |-> discord_id,
              name |-> minecraft_username]
    ELSE FindByName(get_all_users(st), target)

\* the RCON removal is attempted whatever remove_user returned
AfterStoreDelete_always(deleted) == "rcon"

\* lines 157 and 177 (199 and 219): on to the RCON removal only if remove_user
\* returned True
AfterStoreDelete(deleted) == IF deleted THEN "rcon" ELSE "db_failed"

\* the registrations a target names: by Discord id, or by username ignoring case
Matches(st, target) ==
    { u \in DOMAIN st : st[u] # <<>> /\ (target = <<48 + u>> \/ Lower(st[u]) = Lower(target)) }

RegisteredNames(st) == { st[u] : u \in {x \in DOMAIN st : st[x] # <<>>} }

\* the bot with registrations made earlier; the server whitelist holds their
\* names, or has been emptied on the server
AdminInit ==
    /\ InitRcon /\ InitLoop /\ InitAux
    /\ store \in [DiscordIds -> Usernames \cup {<<>>}]
    /\ whitelist \in {RegisteredNames(store), {}}

AdminUnchanged ==
    UNCHANGED <<rconVars, pending_users, handlers, workers, bsockets, sessions, ticker,
                api, codec, parse, calls, sideVars>>

\* who invokes a command: a guild member with or without the administrator
\* permission, or a user who is not a member object (a direct message)
Users == { [member |-> TRUE, administrator |-> TRUE],
           [member |-> TRUE, administrator |-> FALSE],
           [member |-> FALSE, administrator |-> FALSE] }

\* the permission is not looked at
is_admin_anyone(user) == TRUE

\* bot.py lines 123-126
is_admin(user) == IF user.member THEN user.administrator ELSE FALSE

\* the record of a command invocation (lines 134-144 and 234-242): a
\* non-administrator is turned away, otherwise the interaction is deferred
Invocation(cmd, user, target) ==
    [cmd |-> cmd, user |-> user, target |-> target, is_admin |-> is_admin(user),
     pc |-> IF is_admin(user) THEN "deferred" ELSE "done",
     reply |-> IF is_admin(user) THEN "" ELSE "admin_only",
     did |-> <<>>, uid |-> 0, name |-> <<>>, deleted |-> FALSE,
     matched |-> {}, db_ok |-> TRUE, command |-> <<>>, removed |-> FALSE]

\* remove_whitelist is invoked
Admin_invoke(user, target) ==
    /\ Len(admin) < MaxAdmin
    /\ admin' = Append(admin, Invocation("remove_whitelist", user, target))
    /\ UNCHANGED <<store, whitelist>>
    /\ AdminUnchanged

\* list_whitelist is invoked
Admin_list(user) ==
    /\ Len(admin) < MaxAdmin
    /\ admin' = Append(admin, Invocation("list_whitelist", user, <<>>))
    /\ UNCHANGED <<store, whitelist>>
    /\ AdminUnchanged

\* `for i, (discord_id, minecraft_username) in enumerate(all_users[:25])`
\* (line 259): TRUE iff unpacking some row raises
RECURSIVE ListRaises(_)
ListRaises(rows) ==
    IF rows = <<>> THEN FALSE
    ELSE IF ~RowPair(Head(rows)).ok THEN TRUE ELSE ListRaises(Tail(rows))

\* lines 244-277: the registrations are read and listed
Admin_listed(a) ==
    /\ a \in 1..Len(admin) /\ admin[a].pc = "deferred" /\ admin[a].cmd = "list_whitelist"
    /\ LET all_users == get_all_users(store)
       IN  admin' = [admin EXCEPT ![a].pc = "done", ![a].did = <<"store_read">>,
                         ![a].reply = IF all_users = <<>> THEN "none_registered"
                                      ELSE IF ListRaises(all_users) THEN "error"
                                      ELSE "listed"]
    /\ UNCHANGED <<store, whitelist>>
    /\ AdminUnchanged

\* lines 146-157 / 183-199: the registration is looked up and, if there is
\* one, deleted from the store; db_ok tells whether the DELETE went through
Admin_lookup(a, db_ok) ==
    /\ a \in 1..Len(admin) /\ admin[a].pc = "deferred" /\ admin[a].cmd = "remove_whitelist"
    /\ LET f   == FindTarget(store, admin[a].target)
           r   == remove_user(store, f.uid, db_ok)
           rec == [admin[a] EXCEPT !.matched = Matches(store, admin[a].target),
                                   !.did = <<"store_read">>]
       IN  IF f.exc
           THEN /\ admin' = [admin EXCEPT ![a] = [rec EXCEPT !.pc = "done", !.reply = "error"]]
                /\ UNCHANGED store
           ELSE IF ~f.found
           THEN /\ admin' = [admin EXCEPT ![a] =
                       [rec EXCEPT !.pc = "done", !.reply = "not_registered"]]
                /\ UNCHANGED store
           ELSE /\ store' = r.store
                /\ admin' = [admin EXCEPT ![a] =
                       [rec EXCEPT !.uid = f.uid, !.name = f.name, !.db_ok = db_ok,
                                   !.deleted = r.ok,
                                   !.did = <<"store_read", "store_delete">>,
                                   !.pc = IF AfterStoreDelete(r.ok) = "rcon" THEN "rcon"
                                                                             ELSE "done",
                                   !.reply = IF AfterStoreDelete(r.ok) = "rcon" THEN ""
                                                                                ELSE "db_failed"]]
    /\ UNCHANGED whitelist
    /\ AdminUnchanged

\* lines 158-176 / 200-218: remove_from_whitelist is awaited and the outcome
\* reported
Admin_rcon(a, how) ==
    /\ a \in 1..Len(admin) /\ admin[a].pc = "rcon"
    /\ LET o   == [name |-> "remove_from_whitelist", username |-> admin[a].name]
           out == FacadeOutcome(whitelist, o, how)
       IN  /\ whitelist' = out.wl
           /\ admin' = [admin EXCEPT ![a].pc = "done",
                                     ![a].did = Append(@, "rcon"),
                                     ![a].command = CommandText(o),
                                     ![a].removed = out.result,
                                     ![a].reply = IF out.result THEN "removed" ELSE "warning"]
    /\ UNCHANGED store
    /\ AdminUnchanged

AdminNext ==
    \/ \E user \in Users, target \in Targets : Admin_invoke(user, target)
    \/ \E user \in Users : Admin_list(user)
    \/ \E a \in 1..MaxAdmin : Admin_listed(a)
    \/ \E a \in 1..MaxAdmin, db_ok \in BOOLEAN : Admin_lookup(a, db_ok)
    \/ \E a \in 1..MaxAdmin, how \in Outcomes : Admin_rcon(a, how)

AdminSpec == AdminInit /\ [][AdminNext]_vars

--------------------------------------------------------------------------
(* RegistrySpec: whitelist applications and removals by an administrator   *)
(* on one store and one server whitelist, both empty at the start          *)

Administrator == [member |-> TRUE, administrator |-> TRUE]

\* the Discord ids as an administrator types them: "1", "2"
IdTargets == { <<48 + u>> : u \in DiscordIds }

RegistryNext ==
    \/ \E uid \in DiscordIds, name \in Usernames : Submit(uid, name)
    \/ \E h \in 1..MaxSubmits : AckSent(h)
    \/ \E h \in 1..MaxSubmits, v \in BOOLEAN : Validated(h, v)
    \/ \E h \in 1..MaxSubmits, db_ok \in BOOLEAN : AddReturns(h, db_ok)
    \/ \E h \in 1..MaxSubmits : FollowupDone(h)
    \/ \E w \in 1..MaxSubmits, ok \in BOOLEAN : W_Connect(w, ok)
    \/ \E w \in 1..MaxSubmits, how \in {"lost", "answered", "unanswered"} : W_Command(w, how)
    \/ \E target \in IdTargets : Admin_invoke(Administrator, target)
    \/ \E a \in 1..MaxAdmin, db_ok \in BOOLEAN : Admin_lookup(a, db_ok)
    \/ \E a \in 1..MaxAdmin, how \in Outcomes : Admin_rcon(a, how)

RegistrySpec == Init /\ [][RegistryNext]_vars

--------------------------------------------------------------------------
(* StatusSpec: the status columns of whitelist_users, the clock and the    *)
(* status loop.  Instants are counted in half seconds: datetime() writes   *)
(* whole seconds, julianday('now') is the instant itself, and              *)
(* total_playtime is kept in the same unit.  NULL is <<>>, a value <<t>>.  *)

\* the row INSERT OR REPLACE writes (add_user) with the defaults of the schema
NewRow(minecraft_username) ==
    [minecraft_username |-> minecraft_username, joined_at |-> <<>>,
     first_join_at |-> <<>>, last_seen_at |-> <<>>, total_playtime |-> 0, is_online |-> 0]

\* datetime('now', 'utc') at instant t: the text of the whole second
datetime(t) == t - (t % 2)

\* julianday(joined_at) of a stored text: the instant it names
julianday(text) == text

\* first_join_at is written on every join
MarkOnline_first_always(row, now) ==
    [row EXCEPT !.is_online = 1, !.joined_at = <<datetime(now)>>,
                !.first_join_at = <<datetime(now)>>]

\* lines 99-106: UPDATE ... SET is_online = 1, joined_at, first_join_at
MarkOnline(row, now) ==
    [row EXCEPT !.is_online = 1, !.joined_at = <<datetime(now)>>,
                !.first_join_at = IF @ = <<>> THEN <<datetime(now)>> ELSE @]

\* the session is measured from the first join
MarkOffline_since_first(row, now) ==
    [row EXCEPT !.is_online = 0, !.last_seen_at = <<datetime(now)>>,
                !.total_playtime = @ + (IF row.first_join_at # <<>>
                                        THEN now - julianday(row.first_join_at[1]) ELSE 0)]

\* lines 110-122: UPDATE ... SET is_online = 0, last_seen_at, total_playtime
MarkOffline(row, now) ==
    [row EXCEPT !.is_online = 0, !.last_seen_at = <<datetime(now)>>,
                !.total_playtime = @ + (IF row.joined_at # <<>>
                                        THEN now - julianday(row.joined_at[1]) ELSE 0)]

\* the rows `WHERE minecraft_username = ?` selects
RowsOf(table, minecraft_username) ==
    { u \in DOMAIN table : table[u].minecraft_username = minecraft_username }

\* DatabaseManager.update_player_online_status: the table afterwards and the
\* value returned; db_ok = FALSE is an sqlite3 error, which safe_sync turns
\* into False with nothing committed
update_player_online_status(table, minecraft_username, is_online, now, db_ok) ==
    IF ~db_ok THEN [table |-> table, ok |-> FALSE]
    ELSE [table |-> [u \in DOMAIN table |->
                        IF u \in RowsOf(table, minecraft_username)
                        THEN IF is_online THEN MarkOnline(table[u], now)
                                          ELSE MarkOffline(table[u], now)
                        ELSE table[u]],
          ok |-> RowsOf(table, minecraft_username) # {}]

\* the `list` response of the game server for the players connected
RECURSIVE Listing(_)
Listing(S) ==
    IF S = {} THEN <<>>
    ELSE LET x == CHOOSE y \in S : TRUE
         IN  x \o (IF S \ {x} = {} THEN <<>> ELSE T_comma \o <<32>> \o Listing(S \ {x}))

ServerList(online) == IF online = {} THEN R_none ELSE R_none \o <<32>> \o Listing(online)

\* every registration is written on every tick
Reconciled_every_tick(table, player_list, now) ==
    [u \in DOMAIN table |->
        IF \E i \in 1..Len(player_list) : player_list[i] = table[u].minecraft_username
        THEN MarkOnline(table[u], now) ELSE MarkOffline(table[u], now)]

\* what a tick of update_status_task writes to the table (bot.py lines 72-83,
\* 92-121): nothing, the roster only goes into the embed
Reconciled(table, player_list, now) == table

\* registrations made earlier: a table over some of the Discord ids
StatusInit ==
    /\ InitRcon /\ InitLoop /\ InitSmall
    /\ store = [u \in DiscordIds |-> <<>>] /\ whitelist = {}
    /\ \E ids \in SUBSET DiscordIds : \E names \in [ids -> Usernames] :
           stats = [table |-> [u \in ids |-> NewRow(names[u])], now |-> 0, online |-> {},
                    n |-> 0, op |-> [kind |-> "none"]]

StatusUnchanged ==
    UNCHANGED <<rconVars, botVars, api, codec, parse, calls, admin, views, lookup, board>>

\* half a second passes
Status_clock ==
    /\ stats.now < MaxInstant
    /\ stats' = [stats EXCEPT !.now = @ + 1]
    /\ StatusUnchanged

\* a player joins or leaves the game server
Status_player(name) ==
    /\ stats.n < MaxUpdates
    /\ stats' = [stats EXCEPT !.online = IF name \in @ THEN @ \ {name} ELSE @ \cup {name}]
    /\ StatusUnchanged

\* db_manager.update_player_online_status(name, is_online)
Status_update(name, is_online, db_ok) ==
    /\ stats.n < MaxUpdates
    /\ LET r == update_player_online_status(stats.table, name, is_online, stats.now, db_ok)
       IN  stats' = [stats EXCEPT !.table = r.table, !.n = @ + 1,
                         !.op = [kind |-> "update", name |-> name, is_online |-> is_online,
                                 db_ok |-> db_ok, ok |-> r.ok]]
    /\ StatusUnchanged

\* one tick of update_status_task: is_server_running, then get_player_list,
\* then the embed; how1 and how2 tell how the two facade calls go
Status_tick(how1, how2) ==
    /\ stats.n < MaxUpdates
    /\ LET o1 == [name |-> "is_server_running", username |-> <<>>]
           o2 == [name |-> "get_player_list", username |-> <<>>]
           is_running == FacadeOutcome({}, o1, how1).result
           text == ServerList(stats.online)
           player_list ==
               IF how2 = "answered" THEN FacadeReturn(o2, WorkerReturn(o2, text)).val
               ELSE FailureValue(o2)
           fetched == is_running /\ how2 = "answered"
       IN  stats' = [stats EXCEPT
                         !.table = IF is_running THEN Reconciled(@, player_list, stats.now)
                                                 ELSE @,
                         !.n = @ + 1,
                         !.op = [kind |-> "tick", is_running |-> is_running,
                                 fetched |-> fetched,
                                 player_list |-> IF is_running THEN player_list ELSE <<>>]]
    /\ StatusUnchanged

StatusNext ==
    \/ Status_clock
    \/ \E name \in Usernames : Status_player(name)
    \/ \E name \in Usernames, is_online \in BOOLEAN, db_ok \in BOOLEAN :
           Status_update(name, is_online, db_ok)
    \/ \E how1 \in Outcomes, how2 \in Outcomes : Status_tick(how1, how2)

StatusSpec == StatusInit /\ [][StatusNext]_vars

--------------------------------------------------------------------------
(* ViewSpec: status views are rendered and their button is pressed         *)

\* create_server_status_embed, lines 95-118: what the embed shows
Embed(is_running, player_list) ==
    IF is_running
    THEN [description |-> "", players |-> IF player_list # <<>> THEN player_list
                                                               ELSE <<"No players online">>]
    ELSE [description |-> "Offline", players |-> <<>>]

\* ServerStatusView.update_button_state, lines 116-122
update_button_state(is_server_running) ==
    IF ~is_server_running THEN [disabled |-> TRUE, style |-> "grey"]
                          ELSE [disabled |-> FALSE, style |-> "green"]

\* the press goes on whatever the view was rendered with
whitelist_button_unguarded(is_server_running, st, user_id) ==
    IF get_user(st, user_id) # <<>>
    THEN [reply |-> "Already registered", modal |-> FALSE, did |-> <<"store_read">>]
    ELSE [reply |-> "", modal |-> TRUE, did |-> <<"store_read">>]

\* ServerStatusView.whitelist_button, lines 94-114: the answer to a press
whitelist_button(is_server_running, st, user_id) ==
    IF ~is_server_running
    THEN [reply |-> "Server is offline", modal |-> FALSE, did |-> <<>>]
    ELSE IF get_user(st, user_id) # <<>>
    THEN [reply |-> "Already registered", modal |-> FALSE, did |-> <<"store_read">>]
    ELSE [reply |-> "", modal |-> TRUE, did |-> <<"store_read">>]

ViewInit ==
    /\ InitRcon /\ InitLoop /\ InitAux
    /\ store \in [DiscordIds -> Usernames \cup {<<>>}]
    /\ whitelist = RegisteredNames(store)

ViewUnchanged ==
    UNCHANGED <<rconVars, botVars, api, codec, parse, calls, admin, stats, lookup, board>>

\* create_server_status_embed (bot.py lines 92-121): is_server_running, the
\* roster if it is running, the embed and a new ServerStatusView; how1 and
\* how2 tell how the two facade calls go
View_render(how1, how2) ==
    /\ Len(views) < MaxViews
    /\ LET o1 == [name |-> "is_server_running", username |-> <<>>]
           o2 == [name |-> "get_player_list", username |-> <<>>]
           is_running == FacadeOutcome(whitelist, o1, how1).result
           player_list == IF is_running THEN FacadeOutcome(whitelist, o2, how2).result
                                        ELSE <<>>
       IN  views' = Append(views,
               [how |-> how1, is_server_running |-> is_running,
                embed |-> Embed(is_running, player_list),
                button |-> update_button_state(is_running),
                presses |-> <<>>])
    /\ ViewUnchanged

\* the button of view v is pressed by user_id
View_press(v, user_id) ==
    /\ v \in 1..Len(views) /\ Len(views[v].presses) < MaxPresses
    /\ LET r == whitelist_button(views[v].is_server_running, store, user_id)
       IN  views' = [views EXCEPT ![v].presses =
                         Append(@, [user_id |-> user_id, reply |-> r.reply,
                                    modal |-> r.modal, did |-> r.did])]
    /\ ViewUnchanged

ViewNext ==
    \/ \E how1 \in Outcomes, how2 \in Outcomes : View_render(how1, how2)
    \/ \E v \in 1..MaxViews, user_id \in DiscordIds : View_press(v, user_id)

ViewSpec == ViewInit /\ [][ViewNext]_vars

--------------------------------------------------------------------------
(* ValidateSpec: one call of validate_minecraft_username                   *)

\* [a-zA-Z0-9_]
InClass(c) ==
    \/ (c >= 97 /\ c <= 122) \/ (c >= 65 /\ c <= 90) \/ (c >= 48 /\ c <= 57) \/ c = 95

\* the characters of the class at the start of s
RECURSIVE LeadingRun(_)
LeadingRun(s) ==
    IF s = <<>> \/ ~InClass(Head(s)) THEN 0 ELSE 1 + LeadingRun(Tail(s))

\* re.match(r"^[a-zA-Z0-9_]{3,16}$", username), line 17: the repetition takes
\* up to 16 characters of the class, and `$` matches at the end of the string
\* or before a newline that ends it
re_match(s) ==
    LET k == Min(LeadingRun(s), 16)
    IN  k >= 3 /\ SubSeq(s, k + 1, Len(s)) \in { <<>>, <<10>> }

\* every 2xx status is taken for an existing name
StatusMeaning_2xx(status) ==
    IF status >= 200 /\ status <= 299
    THEN [is_valid |-> TRUE, message |-> "Valid Minecraft username"]
    ELSE [is_valid |-> FALSE, message |-> "Error occurred while checking username"]

\* lines 27-32: what the status of the response means
StatusMeaning(status) ==
    IF status = 200 THEN [is_valid |-> TRUE, message |-> "Valid Minecraft username"]
    ELSE IF status = 204
    THEN [is_valid |-> FALSE, message |-> "This Minecraft username does not exist"]
    ELSE [is_valid |-> FALSE, message |-> "Error occurred while checking username"]

\* names of up to MaxName characters of "a", "_", "-", newline, and names of
\* 15, 16 and 17 letters, the second with a newline after it too
LongName(n) == [i \in 1..n |-> 97]

RECURSIVE NamesUpTo(_)
NamesUpTo(n) ==
    IF n = 0 THEN { <<>> }
    ELSE NamesUpTo(n - 1) \cup
         { Append(x, c) : x \in { y \in NamesUpTo(n - 1) : Len(y) = n - 1 },
                          c \in {97, 95, 45, 10} }

TypedNames ==
    NamesUpTo(MaxName) \cup
    { LongName(15), LongName(16), LongName(17), Append(LongName(16), 10) }

\* what the directory lookup does: a response with a status, or an exception
\* (no connection, timeout)
HttpOutcomes ==
    { [exc |-> FALSE, status |-> c] : c \in {200, 204, 404, 429, 500} }
        \cup { [exc |-> TRUE, status |-> 0] }

ValidateUnchanged ==
    UNCHANGED <<rconVars, botVars, api, codec, parse, calls, admin, stats, views, board>>

\* lines 16-25: the pattern is tested; a name that fails it is answered at
\* once, for the others the request is sent
Validate_call(username) ==
    /\ lookup.step = "idle"
    /\ lookup' =
           IF ~re_match(username)
           THEN [step |-> "returned", username |-> username, requests |-> <<>>,
                 raised |-> FALSE, is_valid |-> FALSE,
                 message |-> "Username must be 3-16 characters, alphanumeric and underscore only"]
           ELSE [step |-> "requested", username |-> username, requests |-> <<username>>]
    /\ ValidateUnchanged

\* lines 26-35: the response arrives, or the request raises and the except
\* clause answers
Validate_response(http) ==
    /\ lookup.step = "requested"
    /\ LET r == IF http.exc
                THEN [is_valid |-> FALSE, message |-> "Error occurred while checking username"]
                ELSE StatusMeaning(http.status)
       IN  lookup' = [step |-> "returned", username |-> lookup.username,
                      requests |-> lookup.requests, http |-> http, raised |-> FALSE,
                      is_valid |-> r.is_valid, message |-> r.message]
    /\ ValidateUnchanged

ValidateNext ==
    \/ \E username \in TypedNames : Validate_call(username)
    \/ \E http \in HttpOutcomes : Validate_response(http)

ValidateSpec == Init /\ [][ValidateNext]_vars

--------------------------------------------------------------------------
(* BoardSpec: on_ready posts the status message, the loop edits it every   *)
(* five seconds, and somebody may delete it from the channel               *)

\* create_server_status_embed (bot.py lines 92-121) with the two facade calls
\* going as how1 and how2
Rendering(how1, how2) ==
    LET o1 == [name |-> "is_server_running", username |-> <<>>]
        o2 == [name |-> "get_player_list", username |-> <<>>]
        is_running == FacadeOutcome(whitelist, o1, how1).result
    IN  Embed(is_running, IF is_running THEN FacadeOutcome(whitelist, o2, how2).result
                                        ELSE <<>>)

\* how post_initial_status_message can go
PostOutcomes == {"ok", "error", "nochannel"}

\* post_initial_status_message, lines 55-69: the message sent becomes
\* status_message; without the channel, or if the send raises, nothing is
\* assigned
post_initial_status_message(b, outcome, embed) ==
    IF outcome = "ok"
    THEN [b EXCEPT !.posted = @ + 1, !.status_message = b.posted + 1,
                   !.live = @ \cup {b.posted + 1}, !.shown = Append(@, embed)]
    ELSE b

BoardUnchanged ==
    UNCHANGED <<rconVars, botVars, api, codec, parse, calls, admin, stats, views, lookup>>

\* on_ready, lines 52-53: the first post, then the loop is started
Board_ready(how1, how2, outcome) ==
    /\ board.pc = "start"
    /\ board' = [post_initial_status_message(board, outcome, Rendering(how1, how2))
                     EXCEPT !.pc = "loop", !.last = outcome]
    /\ BoardUnchanged

\* the tracked message is deleted in the channel
Board_delete ==
    /\ board.pc = "loop" /\ board.deleted < MaxDeletes
    /\ board.status_message \in board.live
    /\ board' = [board EXCEPT !.live = @ \ {board.status_message}, !.deleted = @ + 1]
    /\ BoardUnchanged

\* one run of update_status_task, lines 72-83: nothing without a
\* status_message; otherwise the embed is built and the message edited (ok or
\* another error); editing a message that is gone raises "Unknown Message"
\* and post_initial_status_message runs, with an embed of its own
Board_tick(how1, how2, outcome) ==
    /\ board.pc = "loop"
    /\ IF board.status_message = 0
       THEN UNCHANGED board
       ELSE IF board.status_message \in board.live
       THEN /\ outcome \in {"ok", "error"}
            /\ board' = [board EXCEPT !.last = outcome,
                             !.shown[board.status_message] =
                                 IF outcome = "ok" THEN Rendering(how1, how2) ELSE @]
       ELSE board' = [post_initial_status_message(board, outcome, Rendering(how1, how2))
                         EXCEPT !.last = IF outcome = "ok" THEN "reposted" ELSE "unknown"]
    /\ BoardUnchanged

\* a run of the loop in which Discord accepts what the bot sends
Board_tick_ok == \E how1 \in Outcomes, how2 \in Outcomes : Board_tick(how1, how2, "ok")

BoardNext ==
    \/ \E how1 \in Outcomes, how2 \in Outcomes, outcome \in PostOutcomes :
           Board_ready(how1, how2, outcome)
    \/ Board_delete
    \/ \E how1 \in Outcomes, how2 \in Outcomes, outcome \in PostOutcomes :
           Board_tick(how1, how2, outcome)

\* on_ready runs, tasks.loop(seconds=5) keeps running the task, and Discord
\* does not refuse the bot for ever
BoardSpec ==
    /\ Init /\ [][BoardNext]_vars
    /\ WF_vars(BoardNext) /\ SF_vars(Board_tick_ok)

--------------------------------------------------------------------------
(* Observations used by the properties                                     *)

RECURSIVE SumLen(_)
SumLen(ss) == IF ss = <<>> THEN 0 ELSE Len(Head(ss)) + SumLen(Tail(ss))

\* bytes the client has taken from the socket
Received == SumLen(hist.sent) - Len(inbox)

\* the peer's reply is a frame: length prefix = what follows, 8 + payload + 2,
\* terminated by 00 00, with a UTF-8 payload
WellFormed(reply) ==
    /\ Len(reply) >= 14
    /\ UnpackI32(SubSeq(reply, 1, 4)) = Len(reply) - 4
    /\ FrameFaults(reply) \subseteq {"auth_rejected"}

\* the payload text of a well-formed reply
PayloadText(reply) == Utf8Decode(SubSeq(reply, 13, Len(reply) - 2)).text

AllClosed == \A i \in 1..Len(sockets) : sockets[i] = "closed"

\* the deadline the facade operations are documented to have
ClaimedDeadline(o) ==
    IF o.name \in {"is_server_running", "get_player_list"} THEN 5 ELSE 10

SessionState ==
    IF socket = 0 THEN "Disconnected"
    ELSE IF phase = "auth" THEN "Connecting" ELSE "Authenticated"

IoFailed == hist.fails \cap {"read_timeout", "peer_closed", "malformed"} # {}

\* the host never answers: no connection refusal, no byte, no close
Silent ==
    /\ op # NoOp
    /\ Received = 0
    /\ hist.fails \subseteq {"connect_timeout", "read_timeout"}

--------------------------------------------------------------------------
(* Properties                                                              *)

C2_SocketReleased ==
    wpc = "done" => (socket = 0 /\ Len(sockets) = 1 /\ AllClosed)

C2_Witness ==
    wpc = "done" /\ phase = "cmd" /\ "read_timeout" \in hist.fails /\ hist.closes = 1

\* C3: against a host that never responds the caller is never kept waiting past
\* the deadline (5 s / 10 s after dispatch), what it gets is the failure value,
\* and a waiting caller always eventually returns.
C3_SilentBound ==
    /\ (caller = "waiting" /\ Silent) => elapsed <= ClaimedDeadline(op)
    /\ (caller = "returned" /\ Silent) => result = <<FailureValue(op)>>

C3_DeadlineMet ==
    /\ []C3_SilentBound
    /\ (caller = "waiting") ~> (caller = "returned" /\ result = <<FailureValue(op)>>)

C3_Witness ==
    /\ caller = "returned" /\ hist.timedout /\ Silent
    /\ wpc = "read_len" /\ elapsed = ClaimedDeadline(op)

\* C4: whatever the sizes of the deliveries, _read hands _send exactly the bytes
\* the length prefix announces, in arrival order, and when nothing failed on
\* the wire command() returns the payload text of the frame the peer sent.
C4_Reassembly ==
    /\ \A i \in 1..Len(hist.got) :
          LET len == UnpackI32(SubSeq(hist.sent[i], 1, 4))
          IN  hist.got[i] = SubSeq(hist.sent[i], 5, 4 + len)
    /\ (wpc = "done" /\ hist.fails = {} /\ Len(hist.sent) = 2 /\ WellFormed(hist.sent[2]))
          => hist.resp = <<PayloadText(hist.sent[2])>>

C4_Witness ==
    /\ wpc = "done" /\ hist.onebyone /\ hist.resp = <<R_two>>
    /\ Received = Len(ServerFrame(0, 2, <<>>)) + Len(ServerFrame(0, 0, R_two))

\* C5: once a response to AUTH whose requestId is -1 has been read, connect()
\* has failed, the socket it opened is closed, Rcon.socket is None and no
\* command is written; for a frame with a 00 00 terminator the error is the
\* login failure.
C5_AuthFailure ==
    (Len(hist.got) >= 1 /\ "auth_rejected" \in FrameFaults(hist.sent[1])) =>
        /\ wpc = "done" /\ phase = "auth"
        /\ socket = 0 /\ AllClosed /\ SessionState = "Disconnected"
        /\ Len(hist.wire) = 1
        /\ Len(hist.err) = 2 /\ hist.err[1] = E_connfail
        /\ "malformed" \notin FrameFaults(hist.sent[1]) => hist.err = <<E_connfail, E_login>>

C5_Witness ==
    /\ Len(hist.got) = 1 /\ hist.sent[1] = ServerFrame(-1, 2, <<>>)
    /\ hist.err = <<E_connfail, E_login>> /\ hist.closes = 1

\* C6: the caller is never kept waiting past the deadline, also while every
\* read succeeds within the socket timeout: when the facade returns through the
\* deadline it returns the failure value exactly at the deadline, whatever the
\* worker's read loop is doing.
C6_DeadlineOverReads ==
    /\ caller = "waiting" => elapsed <= ClaimedDeadline(op)
    /\ hist.timedout =>
          /\ caller = "returned" /\ result = <<FailureValue(op)>>
          /\ elapsed = ClaimedDeadline(op)

C6_Witness ==
    /\ hist.timedout /\ wpc \in Reading /\ hist.fails = {}
    /\ hist.onebyone /\ Received >= 3 /\ rtimer = SocketTimeout - 1

\* C7: a session moves only Disconnected -> Connecting -> Authenticated ->
\* Disconnected; connect() runs at most once on it; and once a read timeout, a
\* peer close or a malformed frame has occurred it is Disconnected, its use is
\* over, and nothing more is written on it.
C7_Step ==
    /\ <<SessionState, SessionState'>> \in
          { <<"Disconnected", "Disconnected">>, <<"Disconnected", "Connecting">>,
            <<"Connecting", "Connecting">>, <<"Connecting", "Authenticated">>,
            <<"Connecting", "Disconnected">>, <<"Authenticated", "Authenticated">>,
            <<"Authenticated", "Disconnected">> }
    /\ (SessionState = "Disconnected" /\ SessionState' = "Connecting") => hist.connects = 0
    /\ IoFailed => (hist.wire' = hist.wire /\ hist.connects' = hist.connects)

C8_OneInFlight ==
    /\ ~hist.overlap
    /\ Len(hist.wire) <= Len(hist.got) + 1
    /\ hist.unread <=> Len(hist.wire) = Len(hist.got) + 1

C8_Witness ==
    Len(hist.wire) = 2 /\ Len(hist.got) = 2 /\ hist.resp # <<>>


\* C9: concurrent facade operations share nothing: every worker has a session
\* and a socket of its own making, and a session or socket is only ever used
\* (connected, written, read, closed) by the worker that created it.
C9_NothingShared ==
    /\ \A k \in 1..Len(sessions) : sessions[k].users \subseteq {sessions[k].creator}
    /\ \A k \in 1..Len(bsockets) : bsockets[k].users \subseteq {bsockets[k].creator}
    /\ \A v, w \in 1..Len(workers) : v # w => workers[v].sid # workers[w].sid
    /\ \A w \in 1..Len(workers) :
          /\ sessions[workers[w].sid].creator = w
          /\ sessions[workers[w].sid].socket # 0 =>
                bsockets[sessions[workers[w].sid].socket].creator = w

\* the status tick's worker and a whitelist add's worker are both in command()
C9_Witness ==
    \E v, w \in 1..Len(workers) :
        /\ workers[v].owner = 0 /\ workers[w].owner # 0
        /\ workers[v].pc = "command" /\ workers[w].pc = "command"
        /\ bsockets[sessions[workers[v].sid].socket].state = "open"
        /\ bsockets[sessions[workers[w].sid].socket].state = "open"

\* C10: per Discord id at most one submission is between its entry in
\* pending_users and its store write, and a submission of the same id that
\* arrives meanwhile is answered "Already processing", validates nothing, runs
\* no RCON command, writes nothing to the store and leaves pending_users as is.
C10_State ==
    /\ \A g, h \in 1..Len(handlers) :
          (g # h /\ handlers[g].uid = handlers[h].uid /\ handlers[g].pc \in InSequence)
              => handlers[h].pc \notin InSequence
    /\ \A h \in 1..Len(handlers) :
          handlers[h].concurrent =>
              /\ handlers[h].reply = "Already processing"
              /\ handlers[h].did = {} /\ handlers[h].w = 0 /\ handlers[h].pc = "done"

C10_Step ==
    (Len(handlers') = Len(handlers) + 1 /\ handlers'[Len(handlers')].concurrent) =>
        /\ pending_users' = pending_users /\ store' = store
        /\ workers' = workers /\ whitelist' = whitelist

C10_OneInFlight == []C10_State /\ [][C10_Step]_vars

C10_Witness ==
    \E g, h \in 1..Len(handlers) :
        /\ handlers[g].pc = "add" /\ handlers[h].concurrent
        /\ handlers[h].reply = "Already processing"


\* C11: disconnect() is idempotent: on a session without a socket it changes
\* nothing and raises nothing, and however often it is called the socket the
\* session held is closed exactly once and the session stays Disconnected.
C11_State ==
    /\ \A k \in 1..Len(api.closes) : api.closes[k] <= 1
    /\ \A i \in 1..Len(api.log) :
          api.log[i].call = "disconnect" =>
              /\ ~api.log[i].raised
              /\ api.log[i].held # 0 =>
                    /\ api.closes[api.log[i].held] = 1
                    /\ api.sockets[api.log[i].held] = "closed"
    /\ (api.log # <<>> /\ api.log[Len(api.log)].call = "disconnect") => api.socket = 0

C11_Step ==
    (/\ Len(api'.log) = Len(api.log) + 1
     /\ api'.log[Len(api'.log)].call = "disconnect"
     /\ api.socket = 0)
        => /\ api'.socket = 0 /\ api'.sockets = api.sockets
           /\ api'.closes = api.closes /\ api'.io = api.io

C11_Idempotent == []C11_State /\ [][C11_Step]_vars

\* connect, then disconnect three times
C11_Witness ==
    /\ Len(api.log) = 4
    /\ api.log[1].call = "connect" /\ ~api.log[1].raised
    /\ \A i \in 2..4 : api.log[i].call = "disconnect"
    /\ api.closes = <<1>> /\ api.socket = 0

\* C12: a received frame whose last two bytes are not 00 00 makes _send raise
\* ("Incorrect padding" once the 8-byte header is there, a struct error
\* before that), and no payload text is returned from it.
C12_BadTerminator ==
    (/\ codec.step = "read"
     /\ LET n == Len(codec.in_payload)
        IN  n < 2 \/ codec.in_payload[n - 1] # 0 \/ codec.in_payload[n] # 0)
        => /\ codec.returned = <<>>
           /\ codec.err = IF Len(codec.in_payload) >= 8 THEN E_padding ELSE E_send

\* a complete frame with text whose terminator arrived as 00 01
C12_Witness ==
    /\ codec.step = "read" /\ codec.by = "peer" /\ codec.id = 0
    /\ codec.text # <<>>
    /\ Len(codec.in_payload) = 10 + Len(Utf8Encode(codec.text))
    /\ codec.in_payload[Len(codec.in_payload)] = 1
    /\ codec.err = E_padding

\* C13: frame round trip: whatever (requestId, type, payload) a frame was
\* written from, reading the intact frame gives back that requestId, that type
\* and that payload text, and the terminator 00 00; a frame written by _send
\* itself (requestId 0) is returned by the reading half as the same text.
C13_RoundTrip ==
    (codec.step = "read" /\ codec.intact) =>
        /\ codec.fields # <<>>
        /\ codec.fields[1].in_id = codec.id
        /\ codec.fields[1].in_type = codec.type
        /\ codec.fields[1].in_padding = <<0, 0>>
        /\ Utf8Decode(codec.fields[1].in_data_partial) = [ok |-> TRUE, text |-> codec.text]
        /\ codec.id # LoginFailedId => codec.returned = <<codec.text>>

\* a text of two multi-byte characters written by _send and read back
C13_Witness ==
    /\ codec.step = "read" /\ codec.intact /\ codec.by = "client"
    /\ codec.text = <<8364, 233>> /\ codec.type = SERVERDATA_EXECCOMMAND
    /\ codec.returned = <<codec.text>>
    /\ Len(codec.wire) = 4 + 8 + 5 + 2

\* C14: every frame the client writes has a length prefix equal to
\* 8 + (UTF-8 byte length of the payload) + 2, which is the number of bytes after
\* the prefix, carries requestId 0 and type 3 (the AUTH frame, first on the
\* session) or 2 (the command frame), and ends with two NUL bytes.
C14_RequestFrames ==
    \A i \in 1..Len(hist.wire) :
        LET f    == hist.wire[i]
            text == IF i = 1 THEN Password ELSE CommandText(op)
        IN  /\ UnpackI32(SubSeq(f, 1, 4)) = 8 + Len(Utf8Encode(text)) + 2
            /\ Len(f) = 4 + UnpackI32(SubSeq(f, 1, 4))
            /\ SubSeq(f, 5, 8) = <<0, 0, 0, 0>>
            /\ SubSeq(f, 9, 12) = (IF i = 1 THEN <<3, 0, 0, 0>> ELSE <<2, 0, 0, 0>>)
            /\ SubSeq(f, 13, Len(f) - 2) = Utf8Encode(text)
            /\ SubSeq(f, Len(f) - 1, Len(f)) = <<0, 0>>

\* the AUTH frame (a password of two characters, three bytes) and the frame of
\* `whitelist add Ann` have both been written
C14_Witness ==
    /\ Len(hist.wire) = 2
    /\ op.name = "add_to_whitelist"
    /\ Len(hist.wire[1]) = 4 + 8 + 3 + 2
    /\ Len(hist.wire[2]) = 4 + 8 + 17 + 2
    /\ Len(Password) = 2

\* the k-th smallest element of a finite set of numbers
Kth(S, k) == CHOOSE j \in S : Cardinality({x \in S : x < j}) = k - 1

\* x without its leading and trailing whitespace
Trimmed(x) ==
    LET keep == {j \in 1..Len(x) : x[j] \notin Whitespace}
    IN  IF keep = {} THEN <<>> ELSE SubSeq(x, Kth(keep, 1), Kth(keep, Cardinality(keep)))

\* the roster a `list` response stands for: what follows the first ": ", cut
\* at every ",", each piece trimmed; nothing if there is no ": " or only
\* whitespace follows it
ExpectedRoster(response) ==
    LET n    == Len(response)
        hits == {i \in 1..(n - 1) : response[i] = 58 /\ response[i + 1] = 32}
    IN  IF hits = {} THEN <<>>
        ELSE LET rem == SubSeq(response, Kth(hits, 1) + 2, n)
                 cs  == {j \in 1..Len(rem) : rem[j] = 44}
                 m   == Cardinality(cs) + 1
             IN  IF Trimmed(rem) = <<>> THEN <<>>
                 ELSE [k \in 1..m |->
                         Trimmed(SubSeq(rem,
                                        IF k = 1 THEN 1 ELSE Kth(cs, k - 1) + 1,
                                        IF k = m THEN Len(rem) ELSE Kth(cs, k) - 1))]

\* C15: get_player_list returns the names after the first ": " of the `list`
\* response, split on "," and trimmed, in order, and the empty list when ": "
\* is absent or only whitespace follows; "... online: Alice, Bob" gives
\* [Alice, Bob], "... online:" gives [], a banner without ": " gives [].
C15_Roster ==
    (parse.step = "returned" /\ parse.op.name = "get_player_list" /\ parse.how = "text") =>
        /\ parse.result = ExpectedRoster(parse.response)
        /\ parse.response = Ex_two =>
              parse.result = << <<65, 108, 105, 99, 101>>, <<66, 111, 98>> >>
        /\ parse.response \in {Ex_zero, Ex_banner} => parse.result = <<>>
        /\ parse.response = <<65, 58, 32, 58, 32>> => parse.result = << <<58>> >>

C15_Witness ==
    /\ parse.step = "returned" /\ parse.op.name = "get_player_list"
    /\ parse.response = Ex_two
    /\ Len(parse.result) = 2 /\ parse.result[2] = <<66, 111, 98>>

\* C16: add_to_whitelist(username) issues `whitelist add <username>` and
\* returns True exactly when a response text arrived that contains "Added" or
\* "already"; any other text, an exception and the deadline give False.
C16_Add ==
    (parse.step = "returned" /\ parse.op.name = "add_to_whitelist") =>
        /\ parse.command = <<119, 104, 105, 116, 101, 108, 105, 115, 116, 32,
                             97, 100, 100, 32>> \o parse.op.username
        /\ parse.result = (/\ parse.how = "text"
                           /\ parse.built.word \in {T_Added, T_already, Ex_added, Ex_already})

C16_Witness ==
    /\ parse.step = "returned" /\ parse.op.name = "add_to_whitelist"
    /\ parse.built = [pre |-> W_pre, word |-> T_already, post |-> W_post]
    /\ parse.result = TRUE

\* C17: remove_from_whitelist(username) issues `whitelist remove <username>`
\* and returns True exactly when a response text arrived that contains
\* "Removed" or "not on": the answer that the name is not on the whitelist
\* counts as success.
C17_Remove ==
    (parse.step = "returned" /\ parse.op.name = "remove_from_whitelist") =>
        /\ parse.command = <<119, 104, 105, 116, 101, 108, 105, 115, 116, 32,
                             114, 101, 109, 111, 118, 101, 32>> \o parse.op.username
        /\ parse.result = (/\ parse.how = "text"
                           /\ parse.built.word \in {T_Removed, T_not_on, Ex_removed, Ex_noton})

C17_Witness ==
    /\ parse.step = "returned" /\ parse.op.name = "remove_from_whitelist"
    /\ parse.built.word = Ex_noton
    /\ parse.result = TRUE

\* C18: add_to_whitelist called twice in a row with the same username, the
\* server reached and answering both times, returns True both times, the second
\* answer containing "already", and the second call leaves the server whitelist
\* as the first left it.
C18_AddTwice ==
    \A i \in 1..(Len(calls) - 1) :
        (/\ calls[i].op.name = "add_to_whitelist" /\ calls[i + 1].op = calls[i].op
         /\ calls[i].how = "answered" /\ calls[i + 1].how = "answered")
            => /\ calls[i].result = TRUE /\ calls[i + 1].result = TRUE
               /\ Contains(calls[i + 1].text, <<97, 108, 114, 101, 97, 100, 121>>)
               /\ calls[i + 1].wl = calls[i].wl
               /\ calls[i].op.username \in calls[i + 1].wl

\* the first add put the name on the whitelist, the second found it there
C18_Witness ==
    /\ Len(calls) = 2
    /\ calls[1].op.name = "add_to_whitelist" /\ calls[2].op = calls[1].op
    /\ calls[1].how = "answered" /\ calls[2].how = "answered"
    /\ calls[1].text = T_Added /\ calls[2].text = T_already
    /\ calls[2].result = TRUE

\* C19: in the admin removal the store deletion comes first and the RCON
\* `whitelist remove` is issued only if it succeeded; a succeeded deletion with
\* a failed RCON removal is answered with the warning and the registration
\* stays deleted; a failed deletion is answered without any RCON command.
C19_State ==
    \A a \in 1..Len(admin) :
        LET r == admin[a]
        IN  /\ (\E i \in 1..Len(r.did) : r.did[i] = "rcon") =>
                  /\ r.did = <<"store_read", "store_delete", "rcon">>
                  /\ r.deleted
                  /\ r.command = <<119, 104, 105, 116, 101, 108, 105, 115, 116, 32,
                                   114, 101, 109, 111, 118, 101, 32>> \o r.name
            /\ (r.pc = "done" /\ r.did = <<"store_read", "store_delete">>) =>
                  ~r.deleted /\ r.reply = "db_failed"
            /\ (r.pc = "done" /\ r.deleted) =>
                  /\ r.reply = (IF r.removed THEN "removed" ELSE "warning")
                  /\ store[r.uid] = <<>>
            /\ r.reply = "warning" => r.deleted /\ ~r.removed

\* the step that reports the outcome of the RCON removal leaves the store alone
C19_Step ==
    \A a \in 1..Len(admin) :
        (admin[a].pc = "rcon" /\ admin'[a].pc = "done") => store' = store

C19_RemovalOrder == []C19_State /\ [][C19_Step]_vars

\* one removal ended with the warning, another with the store failure
C19_Witness ==
    /\ Len(admin) = 2
    /\ admin[1].reply = "warning" /\ admin[1].deleted /\ store[admin[1].uid] = <<>>
    /\ admin[2].reply = "db_failed" /\ admin[2].did = <<"store_read", "store_delete">>

\* C20: remove_whitelist takes a Discord id or a Minecraft username: whenever
\* the target is the id of a registration or equals a registered username
\* ignoring case (and the store works), that registration is deleted and
\* `whitelist remove` is issued for its username; "not registered" is answered
\* only for a target that matches no registration.
C20_TargetResolved ==
    \A a \in 1..Len(admin) :
        LET r == admin[a]
        IN  (r.pc = "done" /\ r.is_admin /\ r.db_ok) =>
                /\ r.matched # {} =>
                      /\ r.deleted /\ r.uid \in r.matched
                      /\ r.did = <<"store_read", "store_delete", "rcon">>
                      /\ r.command = <<119, 104, 105, 116, 101, 108, 105, 115, 116, 32,
                                       114, 101, 109, 111, 118, 101, 32>> \o r.name
                /\ r.reply = "not_registered" => r.matched = {}

\* C21: when the invoking user is not a guild administrator, remove_whitelist
\* and list_whitelist answer with the administrators-only message and do no
\* store read or write and no RCON operation; the store and the server
\* whitelist are unchanged.
C21_State ==
    \A a \in 1..Len(admin) :
        ~(admin[a].user.member /\ admin[a].user.administrator) =>
            /\ admin[a].pc = "done" /\ admin[a].reply = "admin_only"
            /\ admin[a].did = <<>> /\ admin[a].command = <<>>

\* the invocation by a non-administrator changes neither store nor whitelist,
\* and whatever changes them is a step of an administrator's invocation
C21_Step ==
    /\ (/\ Len(admin') = Len(admin) + 1
        /\ ~(admin'[Len(admin')].user.member /\ admin'[Len(admin')].user.administrator))
           => (store' = store /\ whitelist' = whitelist)
    /\ (store' # store \/ whitelist' # whitelist) =>
           \E a \in 1..Len(admin) :
               /\ admin'[a] # admin[a]
               /\ admin[a].user.member /\ admin[a].user.administrator

C21_AdminOnly == []C21_State /\ [][C21_Step]_vars

\* a member without the permission asked for the removal of a registered name
\* and a non-member asked for the list, on a store that holds registrations
C21_Witness ==
    /\ Len(admin) = 2
    /\ admin[1].cmd = "remove_whitelist" /\ admin[1].user.member
    /\ ~admin[1].user.administrator /\ admin[1].reply = "admin_only"
    /\ admin[1].target \in RegisteredNames(store)
    /\ admin[2].cmd = "list_whitelist" /\ ~admin[2].user.member
    /\ admin[2].reply = "admin_only"

\* C22: the off-thread RCON workers only return results: a step of a worker
\* thread leaves pending_users, the status-message reference and the
\* registration store as they are; those change only in steps of the handlers
\* and of the status loop, which run on the event loop.
C22_WorkerStep ==
    \E w \in 1..Len(workers) : workers'[w] # workers[w]

C22_Step ==
    /\ C22_WorkerStep =>
           /\ pending_users' = pending_users /\ store' = store
           /\ ticker' = ticker /\ handlers' = handlers
    /\ (pending_users' # pending_users \/ store' # store) =>
           \/ Len(handlers') = Len(handlers) + 1
           \/ \E h \in 1..Len(handlers) : handlers'[h].pc # handlers[h].pc
    /\ ticker'.status_message # ticker.status_message => ticker'.pc # ticker.pc

C22_WorkersOnlyReturn == [][C22_Step]_vars

\* a worker has returned True for an application whose handler has not resumed:
\* the id is still pending and unregistered; meanwhile the loop has replaced
\* its status message
C22_Witness ==
    /\ Len(handlers) = 2 /\ handlers[2].pc = "add"
    /\ workers[handlers[2].w].pc = "done" /\ workers[handlers[2].w].res = <<TRUE>>
    /\ handlers[2].uid \in pending_users /\ store[handlers[2].uid] = <<>>
    /\ ticker.status_message = 2

\* the whole second an instant lies in, and membership in a roster
WholeSecond(t) == 2 * (t \div 2)
InRoster(player_list, name) == \E i \in 1..Len(player_list) : player_list[i] = name

\* C23: each tick of the status loop fetches the roster and compares every
\* tracked registration's isOnline with membership in it, so that after a tick
\* with a successful fetch every registration's isOnline equals its membership
\* in that roster.
C23_Reconciled ==
    (stats.op.kind = "tick" /\ stats.op.fetched) =>
        \A u \in DOMAIN stats.table :
            (stats.table[u].is_online = 1) <=>
                InRoster(stats.op.player_list, stats.table[u].minecraft_username)

\* C24: on a tick where a registration's isOnline already equals its membership
\* in the fetched roster, no write is made for it: joinedAt, firstJoinAt,
\* lastSeenAt and totalPlaytime (the whole row) are unchanged.
C24_Step ==
    (stats'.n = stats.n + 1 /\ stats'.op.kind = "tick" /\ stats'.op.fetched) =>
        \A u \in DOMAIN stats.table :
            ((stats.table[u].is_online = 1) <=>
                 InRoster(stats'.op.player_list, stats.table[u].minecraft_username))
            => (u \in DOMAIN stats'.table /\ stats'.table[u] = stats.table[u])

C24_NoTransitionNoWrite == [][C24_Step]_vars

\* a tick fetched a roster with Ann in it while Ann's row, with its join
\* recorded, was online and another registration, not in the roster, offline
C24_Witness ==
    /\ stats.op.kind = "tick" /\ stats.op.fetched
    /\ \E u \in DOMAIN stats.table :
           /\ stats.table[u].is_online = 1 /\ stats.table[u].joined_at # <<>>
           /\ InRoster(stats.op.player_list, stats.table[u].minecraft_username)
    /\ \E u \in DOMAIN stats.table :
           /\ stats.table[u].is_online = 0
           /\ ~InRoster(stats.op.player_list, stats.table[u].minecraft_username)

\* C25: marking a player online sets isOnline = true and joinedAt = now, and
\* firstJoinAt only if it was unset; once firstJoinAt has a value no status
\* update changes it.
C25_Step ==
    /\ (/\ stats'.n = stats.n + 1 /\ stats'.op.kind = "update"
        /\ stats'.op.is_online /\ stats'.op.db_ok) =>
           \A u \in DOMAIN stats.table :
               stats.table[u].minecraft_username = stats'.op.name =>
                   /\ stats'.table[u].is_online = 1
                   /\ stats'.table[u].joined_at = <<WholeSecond(stats.now)>>
                   /\ stats.table[u].first_join_at = <<>> =>
                          stats'.table[u].first_join_at = <<WholeSecond(stats.now)>>
    /\ \A u \in DOMAIN stats.table :
           stats.table[u].first_join_at # <<>> =>
               stats'.table[u].first_join_at = stats.table[u].first_join_at

C25_FirstJoinKept == [][C25_Step]_vars

\* a player who joined in one second, left, and joined again in a later one
C25_Witness ==
    /\ stats.op.kind = "update" /\ stats.op.is_online /\ stats.op.ok
    /\ \E u \in DOMAIN stats.table :
           /\ stats.table[u].is_online = 1
           /\ stats.table[u].last_seen_at # <<>>
           /\ stats.table[u].first_join_at # <<>>
           /\ stats.table[u].joined_at # stats.table[u].first_join_at

\* C26: on an online -> offline transition totalPlaytime grows by exactly
\* now - joinedAt (by 0 if joinedAt is unset), lastSeenAt is set to now and
\* isOnline becomes false; totalPlaytime never decreases under status updates.
C26_Step ==
    /\ (/\ stats'.n = stats.n + 1 /\ stats'.op.kind = "update"
        /\ ~stats'.op.is_online /\ stats'.op.db_ok) =>
           \A u \in DOMAIN stats.table :
               (/\ stats.table[u].minecraft_username = stats'.op.name
                /\ (stats.table[u].is_online = 1 \/ stats.table[u].joined_at = <<>>)) =>
                   /\ stats'.table[u].is_online = 0
                   /\ stats'.table[u].last_seen_at = <<WholeSecond(stats.now)>>
                   /\ stats'.table[u].total_playtime =
                          stats.table[u].total_playtime +
                          (IF stats.table[u].joined_at = <<>> THEN 0
                           ELSE stats.now - stats.table[u].joined_at[1])
    /\ \A u \in DOMAIN stats.table :
           stats'.table[u].total_playtime >= stats.table[u].total_playtime

C26_Playtime == [][C26_Step]_vars

\* a session of one and a half seconds has been added to the total: joined in
\* second 0, left at instant 3
C26_Witness ==
    /\ stats.op.kind = "update" /\ ~stats.op.is_online /\ stats.op.ok
    /\ \E u \in DOMAIN stats.table :
           /\ stats.table[u].is_online = 0
           /\ stats.table[u].joined_at = <<0>>
           /\ stats.table[u].last_seen_at = <<2>>
           /\ stats.table[u].total_playtime = 3

\* C27: reachability failures render as "server offline", and no whitelist
\* application starts from a view rendered while the server was unreachable:
\* when is_server_running returned False the embed shows Offline, the button is
\* disabled, and a press is answered "Server is offline" without the modal and
\* without touching the store.
C27_State ==
    \A v \in 1..Len(views) :
        /\ views[v].how # "answered" => ~views[v].is_server_running
        /\ ~views[v].is_server_running =>
               /\ views[v].embed.description = "Offline"
               /\ views[v].button.disabled
               /\ \A p \in 1..Len(views[v].presses) :
                      /\ views[v].presses[p].reply = "Server is offline"
                      /\ ~views[v].presses[p].modal
                      /\ views[v].presses[p].did = <<>>

C27_Step == (views' # views) => (store' = store /\ pending_users' = pending_users)

C27_OfflineView == []C27_State /\ [][C27_Step]_vars

\* the server did not answer in time, the view rendered then was pressed by a
\* user without registration
C27_Witness ==
    \E v \in 1..Len(views) :
        /\ views[v].how = "late" /\ views[v].button.disabled
        /\ \E p \in 1..Len(views[v].presses) :
               /\ store[views[v].presses[p].user_id] = <<>>
               /\ views[v].presses[p].reply = "Server is offline"

\* a name of 3 to 16 characters of a-z, A-Z, 0-9 and "_", possibly followed by
\* the one newline that `$` lets through
MatchesPattern(s) ==
    \E core \in { s, SubSeq(s, 1, Len(s) - 1) } :
        /\ (core = s \/ (s # <<>> /\ s[Len(s)] = 10 /\ Len(core) = Len(s) - 1))
        /\ Len(core) >= 3 /\ Len(core) <= 16
        /\ \A i \in 1..Len(core) :
               \/ core[i] \in 97..122 \/ core[i] \in 65..90 \/ core[i] \in 48..57
               \/ core[i] = 95

\* C28: validate_minecraft_username reports a name valid only when it matches
\* ^[a-zA-Z0-9_]{3,16}$ and the lookup answered 200; 204 gives invalid ("does
\* not exist"); any other status or any exception gives invalid ("error while
\* checking") without raising; a name that fails the pattern causes no request.
C28_Validation ==
    lookup.step = "returned" =>
        /\ ~lookup.raised
        /\ IF ~MatchesPattern(lookup.username)
           THEN /\ lookup.requests = <<>> /\ ~lookup.is_valid
                /\ lookup.message =
                       "Username must be 3-16 characters, alphanumeric and underscore only"
           ELSE /\ lookup.requests = <<lookup.username>>
                /\ lookup.is_valid <=> (~lookup.http.exc /\ lookup.http.status = 200)
                /\ (~lookup.http.exc /\ lookup.http.status = 204) =>
                       lookup.message = "This Minecraft username does not exist"
                /\ (lookup.http.exc \/ lookup.http.status \notin {200, 204}) =>
                       lookup.message = "Error occurred while checking username"

\* a well-formed name the directory does not know
C28_Witness ==
    /\ lookup.step = "returned" /\ lookup.username = <<97, 95, 97>>
    /\ lookup.requests # <<>> /\ ~lookup.http.exc /\ lookup.http.status = 204
    /\ ~lookup.is_valid

\* C29: in a whitelist application the steps run in the order validate ->
\* RCON `whitelist add` -> store upsert, each only if the one before succeeded:
\* no `whitelist add` for a username that failed validation, and no
\* registration written unless add_to_whitelist returned True.
C29_State ==
    \A h \in 1..Len(handlers) :
        /\ "rcon" \in handlers[h].did =>
               /\ "validate" \in handlers[h].did /\ handlers[h].is_valid = <<TRUE>>
               /\ handlers[h].w \in 1..Len(workers)
               /\ workers[handlers[h].w].op =
                      [name |-> "add_to_whitelist", username |-> handlers[h].name]
        /\ "store" \in handlers[h].did =>
               /\ "rcon" \in handlers[h].did
               /\ workers[handlers[h].w].res = <<TRUE>>
        /\ handlers[h].is_valid # <<TRUE>> =>
               \A w \in 1..Len(workers) : workers[w].owner # h

C29_Step ==
    /\ \A u \in DiscordIds :
           store'[u] # store[u] =>
               \E h \in 1..Len(handlers) :
                   /\ handlers[h].uid = u /\ handlers[h].pc = "add"
                   /\ "rcon" \in handlers[h].did
                   /\ workers[handlers[h].w].res = <<TRUE>>
                   /\ store'[u] = handlers[h].name
    /\ (/\ Len(workers') = Len(workers) + 1
        /\ workers'[Len(workers')].op.name = "add_to_whitelist") =>
           \E h \in 1..Len(handlers) :
               /\ handlers[h].pc = "validate" /\ handlers'[h].is_valid = <<TRUE>>
               /\ workers'[Len(workers')].op.username = handlers[h].name
               /\ workers'[Len(workers')].owner = h

C29_ApplicationOrder == []C29_State /\ [][C29_Step]_vars

\* one application ended at the validation, another one went through to the
\* store
C29_Witness ==
    /\ Len(handlers) = 2
    /\ handlers[1].is_valid = <<FALSE>> /\ handlers[1].pc = "done"
    /\ handlers[2].did = {"validate", "rcon", "store"}
    /\ store[handlers[2].uid] = handlers[2].name

\* C30: a Discord id is in pending_users only while its submission handler is
\* running: whichever way on_submit ends after adding the id (also when the
\* "Checking username" acknowledgement cannot be sent), the id has been
\* removed when the handler ends.
C30_PendingReleased ==
    \A uid \in pending_users :
        \E h \in 1..Len(handlers) : handlers[h].uid = uid /\ handlers[h].pc # "done"

\* C31: the store holds one registration per Discord id at most, and a
\* submission or a button press by an id that is registered changes nothing:
\* it is answered "Already registered", nothing is validated, no RCON command
\* runs, nothing is written and the registered username stays as it was,
\* however the submissions of that id interleave.
C31_State ==
    /\ \A h \in 1..Len(handlers) :
          /\ handlers[h].pc \in InSequence => store[handlers[h].uid] = <<>>
          /\ handlers[h].reply = "Already registered" =>
                 /\ handlers[h].did = {} /\ handlers[h].w = 0 /\ handlers[h].pc = "done"
                 /\ \A w \in 1..Len(workers) : workers[w].owner # h
    /\ \A uid \in DiscordIds :
          store[uid] # <<>> =>
              /\ ~whitelist_button(TRUE, store, uid).modal
              /\ whitelist_button(TRUE, store, uid).reply = "Already registered"

C31_Step ==
    /\ \A uid \in DiscordIds : store[uid] # <<>> => store'[uid] = store[uid]
    /\ (/\ Len(handlers') = Len(handlers) + 1
        /\ store[handlers'[Len(handlers')].uid] # <<>>) =>
           /\ handlers'[Len(handlers')].reply = "Already registered"
           /\ handlers'[Len(handlers')].pc = "done"
           /\ pending_users' = pending_users /\ store' = store
           /\ workers' = workers /\ whitelist' = whitelist

LastLifecycle(j) ==
    LET before == {i \in 1..(j - 1) : api.log[i].call \in {"connect", "disconnect"}}
    IN  IF before = {} THEN 0 ELSE CHOOSE i \in before : \A k \in before : k <= i

\* C32: a COMMAND packet is written only on a session whose AUTH exchange went
\* through: on a session never connected, whose connect() failed or that was
\* disconnected, command() raises "Must connect before sending data", does no
\* socket I/O and leaves the session Disconnected.
C32_State ==
    \A j \in 1..Len(api.log) :
        api.log[j].call = "command" =>
            LET i == LastLifecycle(j)
                connected == i # 0 /\ api.log[i].call = "connect" /\ ~api.log[i].raised
            IN  IF connected
                THEN api.log[j].held # 0 /\ api.log[j].err # E_connect
                ELSE /\ api.log[j].held = 0 /\ api.log[j].raised
                     /\ api.log[j].err = E_connect

C32_Step ==
    (/\ Len(api'.log) = Len(api.log) + 1
     /\ api'.log[Len(api'.log)].call = "command"
     /\ api'.log[Len(api'.log)].err = E_connect)
        => /\ api.socket = 0 /\ api'.socket = 0
           /\ api'.io = api.io /\ api'.sockets = api.sockets /\ api'.closes = api.closes

C32_AuthFirst == []C32_State /\ [][C32_Step]_vars

\* command() before any connect, after a failed connect and after a disconnect
C32_Witness ==
    /\ Len(api.log) = 4 /\ api.log[1].call = "command"
    /\ api.log[2].call = "connect" /\ api.log[2].raised
    /\ api.log[3].call = "command" /\ api.log[3].err = E_connect
    /\ api.log[4].call = "connect" /\ ~api.log[4].raised
    /\ api.io = 2

\* C33: a call of add_to_whitelist that returns False to its caller does not
\* put the username on the server whitelist, before or after it returns: the
\* worker that puts a username on the whitelist belongs to a handler that is
\* still awaiting it, and it returns True to that handler.
C33_Step ==
    \A w \in 1..Len(workers) :
        (/\ workers[w].pc = "command" /\ workers'[w].pc = "done"
         /\ workers[w].op.name = "add_to_whitelist"
         /\ workers[w].op.username \in whitelist' \ whitelist)
            => /\ handlers[workers[w].owner].pc = "add"
               /\ workers'[w].res = <<TRUE>>

C33_FailureAddsNothing == [][C33_Step]_vars

\* every RCON command issued so far was run by the server and answered in
\* time, and no application or removal is under way
AllSucceeded ==
    /\ \A h \in 1..Len(handlers) : handlers[h].pc = "done"
    /\ \A w \in 1..Len(workers) : workers[w].pc = "done" /\ workers[w].res = <<TRUE>>
    /\ \A a \in 1..Len(admin) :
          /\ admin[a].pc = "done"
          /\ "rcon" \in {admin[a].did[i] : i \in 1..Len(admin[a].did)} => admin[a].removed

\* C34: after any applications and removals in which every RCON command
\* succeeded, every username registered in the store is on the server
\* whitelist, also when two Discord ids registered the same username and one
\* of the two registrations was removed.
C34_RegisteredWhitelisted ==
    AllSucceeded => RegisteredNames(store) \subseteq whitelist

\* C35: a response frame whose length prefix is negative or less than 10 is
\* rejected with an error; it is never accepted and returned as a payload,
\* empty or not.
C35_ShortFrameRejected ==
    (codec.step = "read" /\ UnpackI32(SubSeq(codec.wire, 1, 4)) < 10)
        => codec.returned = <<>> /\ codec.err # ""

\* C36: after any sequence of connect(), command() and disconnect() calls on
\* one session it holds at most one open socket, and after disconnect() every
\* socket it ever opened is closed: connect() on a connected session leaks
\* nothing.
C36_NoLeak ==
    /\ Cardinality({k \in 1..Len(api.sockets) : api.sockets[k] = "open"}) <= 1
    /\ (api.log # <<>> /\ api.log[Len(api.log)].call = "disconnect")
           => \A k \in 1..Len(api.sockets) : api.sockets[k] = "closed"

\* C37: update_player_online_status(name, False) changes totalPlaytime only
\* on an online -> offline transition: on a player who is offline already it
\* leaves totalPlaytime as it is, so that totalPlaytime is the sum of the
\* durations of the completed online sessions.
C37_Step ==
    (/\ stats'.n = stats.n + 1 /\ stats'.op.kind = "update" /\ ~stats'.op.is_online) =>
        \A u \in DOMAIN stats.table :
            (/\ stats.table[u].minecraft_username = stats'.op.name
             /\ stats.table[u].is_online = 0) =>
                stats'.table[u].total_playtime = stats.table[u].total_playtime

C37_OfflineTwice == [][C37_Step]_vars

\* the bytes the first n responses take on the stream: 4 + length each (the
\* prefix alone if it announces nothing)
RECURSIVE FramesUpTo(_)
FramesUpTo(n) ==
    IF n = 0 THEN 0
    ELSE FramesUpTo(n - 1) + 4 + Max(0, UnpackI32(SubSeq(hist.sent[n], 1, 4)))

\* C38: reading one response takes exactly 4 + length bytes from the stream
\* and never more: each recv asks for no more than is still missing, bytes of
\* a following frame are neither consumed nor dropped, and after every
\* command that returned the stream is at a frame boundary.
C38_FrameBoundary ==
    "peer_closed" \notin hist.fails =>
        /\ Received <= FramesUpTo(Len(hist.sent))
        /\ ~hist.unread => Received = FramesUpTo(Len(hist.got))
        /\ (hist.unread /\ wpc \in Reading) =>
               /\ Len(data) <= want
               /\ Received = FramesUpTo(Len(hist.got))
                                 + (IF wpc = "read_len" THEN 0 ELSE 4) + Len(data)
        /\ hist.resp # <<>> =>
               inbox = SubSeq(LastSent, 5 + UnpackI32(SubSeq(LastSent, 1, 4)), Len(LastSent))

\* the command returned the text of the first of two frames that had arrived
\* together, and the second one is still on the stream, whole
C38_Witness ==
    /\ wpc = "done" /\ hist.resp = <<R_banner>> /\ LastSent = TwoFrames
    /\ ~hist.onebyone
    /\ inbox = ServerFrame(0, 0, R_no)

\* C39: the status board always reappears: whenever the bot has no live
\* status message (none is tracked because the first post failed, or the
\* tracked one was deleted), a later run of the update loop posts a new one
\* and tracks it.
C39_Reappears ==
    (board.pc = "loop" /\ board.status_message \notin board.live)
        ~> (board.status_message \in board.live)

==========================================================================
